---- MODULE Spec2Model ----
(***************************************************************************)
(* A model of the cluster membership control plane of LXD: the fan-out     *)
(* notifier (cluster.NewNotifier), join-token issuance, certificate        *)
(* rotation, member update, member removal and the raft role handlers of   *)
(* lxd/api_cluster.go.  Every subsystem has its own variables and its own  *)
(* specification; a subsystem that a specification does not exercise stays *)
(* in its initial state.                                                   *)
(***************************************************************************)
EXTENDS Integers, Sequences, FiniteSets, TLC

\* Number of cluster members of the modelled cluster.
NumNodes == 3

\* Cluster addresses (host:port); member i listens on AddressPool[i].
AddressPool ==
  <<"10.0.0.1:8443", "10.0.0.2:8443", "10.0.0.3:8443", "10.0.0.4:8443",
    "10.0.0.5:8443", "10.0.0.6:8443">>

MemberIds == 1..NumNodes

MemberAddresses == {AddressPool[i] : i \in MemberIds}

VARIABLES
  \* ---- notifier (cluster.NewNotifier) ----
  nfAddress,   \* node.ClusterAddress of the invoking member, "" when not clustered
  nfNodes,     \* tx.GetNodes(): sequence of [Address, HeartbeatAge]
  nfUp,        \* addresses that answer a connection attempt (HasConnectivity)
  policy,      \* the NotifierPolicy given to NewNotifier
  nfState,     \* "init", "failed", "built", "running", "returned"
  peers,       \* the peers slice captured by the notifier closure
  errs,        \* the errs slice of a running notify call
  nfPc,        \* per peer goroutine: "idle", "start", "hook", "done"
  nfHooked,    \* addresses against which the hook has been invoked
  nfResult,    \* what the notify call returned: [err, peer]
  \* ---- join tokens (clusterNodesPost) ----
  tkOps,               \* join-token operations of the whole cluster, by operation id
  tkReq,               \* the POST /cluster/members requests in flight
  clusterNodesPostMu,  \* per member: the request holding clusterNodesPostMu, 0 when free
  \* ---- cluster certificate (clusterCertificatePut) ----
  crCert,      \* per member: generation of the cluster certificate in use
  crUp,        \* members that can be reached over the network
  crReq,       \* the PUT /cluster/certificate request being handled
  crCount,     \* number of rotation requests issued so far
  \* ---- member update (clusterNodePut) ----
  mbDescription,  \* per member: the description column
  mbRoles,        \* per member: the rows of the roles table
  mbInitRoles,    \* the roles the members had before any PUT (history)
  putReq,         \* the PUT/PATCH /cluster/members/{name} requests in flight
  \* ---- self-removal (clusterNodeDelete, clusterPutDisable) ----
  rmLeader,             \* the member that is the raft leader
  rmDelete,             \* the DELETE request of the client: [origin, name, force]
  rmReq,                \* per HTTP request: [pc, result]
  rmCtxDone,            \* the HTTP requests whose context is done
  rmMembers,            \* the members that have a Member row
  rmMembershipMutex,    \* the request holding the leader's clusterMembershipMutex
  clusterPutDisableMu,  \* per member: who holds clusterPutDisableMu, "" when free
  rmUnlockGo,           \* the goroutine of clusterNodeDelete that unlocks
  rmReplaceGo,          \* the goroutine of clusterPutDisable: [node, waits, pc]
  rmDaemon,             \* per member: "running" or "replaced"
  \* ---- raft roles (rebalance, handover, member delete, raft-node delete) ----
  rlMembers,               \* the members that have a Member row
  rlRaft,                  \* per member: its raft role, "" when it is no raft node
  rlUp,                    \* the members that are online and reachable
  rlLeader,                \* the member that is the raft leader
  rlReq,                   \* the requests in flight, per request slot
  clusterMembershipMutex,   \* the slot holding the leader's clusterMembershipMutex
  bsCore,  \* core.https_address of the member
  bsCluster,  \* cluster.https_address of the member, the empty address when unset
  bsTasks,  \* the cluster tasks are running
  bsRows,  \* the raft node and the Member row of the member exist
  bsReq,  \* the PUT /1.0/cluster request that bootstraps
  jnEffects,  \* what joins have left on the joiner and on the cluster
  jnReq,  \* the PUT /1.0/cluster request that joins, and its operation
  nwMembers,  \* the members of the cluster
  nwUp,  \* the members that are online
  nwState,  \* the state of the network record: none, pending, created, errored
  nwDefined,  \* the members the network is defined on (networks_nodes)
  nwConfig,  \* the global config of the network
  nwCreatedOn,  \* the members on which the network created by doNetworksCreate exists
  nwReq,  \* the create, define and update requests on the network being handled
  nwDel,  \* the delete request on the network being handled
  nmNames,  \* the names of the members of the cluster
  nmLast,  \* the request on member names answered last: kind, name, result
  hoLeader,  \* the member that is the raft leader, 0 when there is none
  hoReq,  \* the call of handoverMemberRole on a member
  cfPools,  \* the storage pools of the cluster, as GetStoragePools lists them
  cfNetworks,  \* the networks of the cluster, as GetNetworks lists them
  cfRows,  \* the names that have a Member row and a raft-node row
  cfReq,  \* the accept or init request at hand and its outcome
  asTable,  \* the rows of the local raft_nodes table
  asReq,  \* the request to /internal/cluster/assign at hand
  ncLock,  \* per member: the holder of networkCreateLock, <<>> when free
  ncReq,  \* per member: the cluster-wide create request of a client it serves
  ncNote  \* per member and peer: the notification of the member to the peer

notifyVars ==
  <<nfAddress, nfNodes, nfUp, policy, nfState, peers, errs, nfPc, nfHooked, nfResult>>

tokenVars == <<tkOps, tkReq, clusterNodesPostMu>>

certVars == <<crCert, crUp, crReq, crCount>>

putVars == <<mbDescription, mbRoles, mbInitRoles, putReq>>

removalVars ==
  <<rmLeader, rmDelete, rmReq, rmCtxDone, rmMembers, rmMembershipMutex,
    clusterPutDisableMu, rmUnlockGo, rmReplaceGo, rmDaemon>>

rolesVars == <<rlMembers, rlRaft, rlUp, rlLeader, rlReq, clusterMembershipMutex>>

bootstrapVars == <<bsCore, bsCluster, bsTasks, bsRows, bsReq>>

joinVars == <<jnEffects, jnReq>>

networksVars == <<nwMembers, nwUp, nwState, nwDefined, nwConfig, nwCreatedOn,
  nwReq, nwDel>>

namesVars == <<nmNames, nmLast>>

handoffVars == <<hoLeader, hoReq>>

configVars == <<cfPools, cfNetworks, cfRows, cfReq>>

assignVars == <<asTable, asReq>>

createlockVars == <<ncLock, ncReq, ncNote>>

vars == <<notifyVars, tokenVars, certVars, putVars, removalVars, rolesVars,
  bootstrapVars, joinVars, networksVars, namesVars, handoffVars, configVars,
  assignVars, createlockVars>>

\* What the actions of one subsystem leave alone: the other subsystems.
notifyOthers == <<tokenVars, certVars, putVars, removalVars, rolesVars,
  bootstrapVars, joinVars, networksVars, namesVars, handoffVars, configVars,
  assignVars, createlockVars>>

tokenOthers == <<notifyVars, certVars, putVars, removalVars, rolesVars,
  bootstrapVars, joinVars, networksVars, namesVars, handoffVars, configVars,
  assignVars, createlockVars>>

certOthers == <<notifyVars, tokenVars, putVars, removalVars, rolesVars,
  bootstrapVars, joinVars, networksVars, namesVars, handoffVars, configVars,
  assignVars, createlockVars>>

putOthers == <<notifyVars, tokenVars, certVars, removalVars, rolesVars,
  bootstrapVars, joinVars, networksVars, namesVars, handoffVars, configVars,
  assignVars, createlockVars>>

removalOthers == <<notifyVars, tokenVars, certVars, putVars, rolesVars,
  bootstrapVars, joinVars, networksVars, namesVars, handoffVars, configVars,
  assignVars, createlockVars>>

rolesOthers == <<notifyVars, tokenVars, certVars, putVars, removalVars,
  bootstrapVars, joinVars, networksVars, namesVars, handoffVars, configVars,
  assignVars, createlockVars>>

bootstrapOthers == <<notifyVars, tokenVars, certVars, putVars, removalVars,
  rolesVars, joinVars, networksVars, namesVars, handoffVars, configVars,
  assignVars, createlockVars>>

joinOthers == <<notifyVars, tokenVars, certVars, putVars, removalVars,
  rolesVars, bootstrapVars, networksVars, namesVars, handoffVars, configVars,
  assignVars, createlockVars>>

networksOthers == <<notifyVars, tokenVars, certVars, putVars, removalVars,
  rolesVars, bootstrapVars, joinVars, namesVars, handoffVars, configVars,
  assignVars, createlockVars>>

namesOthers == <<notifyVars, tokenVars, certVars, putVars, removalVars,
  rolesVars, bootstrapVars, joinVars, networksVars, handoffVars, configVars,
  assignVars, createlockVars>>

handoffOthers == <<notifyVars, tokenVars, certVars, putVars, removalVars,
  rolesVars, bootstrapVars, joinVars, networksVars, namesVars, configVars,
  assignVars, createlockVars>>

configOthers == <<notifyVars, tokenVars, certVars, putVars, removalVars,
  rolesVars, bootstrapVars, joinVars, networksVars, namesVars, handoffVars,
  assignVars, createlockVars>>

assignOthers == <<notifyVars, tokenVars, certVars, putVars, removalVars,
  rolesVars, bootstrapVars, joinVars, networksVars, namesVars, handoffVars,
  configVars, createlockVars>>

createlockOthers == <<notifyVars, tokenVars, certVars, putVars, removalVars,
  rolesVars, bootstrapVars, joinVars, networksVars, namesVars, handoffVars,
  configVars, assignVars>>

\* The least element of a non-empty set of integers.
Min(S) == CHOOSE x \in S : \A y \in S : x <= y

(***************************************************************************)
(* Notifier                                                                *)
(***************************************************************************)

NotifyAll == 0
NotifyAlive == 1
NotifyTryAll == 2

NotifierPolicy == {NotifyAll, NotifyAlive, NotifyTryAll}

\* Offline threshold and the heartbeat ages a member can have, in the same unit.
offlineThreshold == 1

HeartbeatAges == 0..(offlineThreshold + 1)

\* db.NodeInfo.IsOffline: the heartbeat is older than the threshold.
IsOffline(node, threshold) == node.HeartbeatAge > threshold

\* cluster.HasConnectivity: a live probe of the member at the address.
HasConnectivity(address) == address \in nfUp

\* shared.IsConnectionError: the error says the target could not be reached.
IsConnectionError(err) == err = "conn"

\* The errors a connection or a hook can produce.
PeerErrors == {"conn", "other"}

\* A selection loop that trusts the heartbeat alone: under NotifyAll it fails
\* on a member that is offline by heartbeat without probing it.
SelectTrustingHeartbeat(nodes, address, pol, acc) ==
  LET sel[i \in 0..Len(nodes)] ==
        IF i = 0 THEN acc
        ELSE IF nodes[i].Address = address \/ nodes[i].Address = "0.0.0.0"
        THEN sel[i - 1]
        ELSE IF IsOffline(nodes[i], offlineThreshold) /\ ~HasConnectivity(nodes[i].Address)
                /\ pol = NotifyAlive
        THEN sel[i - 1]
        ELSE Append(sel[i - 1], nodes[i].Address)
  IN
    IF pol = NotifyAll
       /\ \E i \in DOMAIN nodes :
            /\ nodes[i].Address # address
            /\ nodes[i].Address # "0.0.0.0"
            /\ IsOffline(nodes[i], offlineThreshold)
    THEN [err |-> TRUE, peers |-> <<>>]
    ELSE [err |-> FALSE, peers |-> sel[Len(nodes)]]

\* A selection loop that never leaves a member out: every other member is a
\* peer under NotifyAlive too.
SelectEveryOther(nodes, address, pol, acc) ==
  LET sel[i \in 0..Len(nodes)] ==
        IF i = 0 THEN acc
        ELSE IF nodes[i].Address = address \/ nodes[i].Address = "0.0.0.0"
        THEN sel[i - 1]
        ELSE Append(sel[i - 1], nodes[i].Address)
  IN
    IF pol = NotifyAll
       /\ \E i \in DOMAIN nodes :
            /\ nodes[i].Address # address
            /\ nodes[i].Address # "0.0.0.0"
            /\ IsOffline(nodes[i], offlineThreshold)
            /\ ~HasConnectivity(nodes[i].Address)
    THEN [err |-> TRUE, peers |-> <<>>]
    ELSE [err |-> FALSE, peers |-> sel[Len(nodes)]]

\* What the peer selection loop of NewNotifier returns: err is TRUE when
\* NewNotifier returns (nil, error).
RECURSIVE SelectPeers(_, _, _, _)
SelectPeers(nodes, address, pol, acc) ==
  IF nodes = <<>> THEN [err |-> FALSE, peers |-> acc]
  ELSE
    LET node == Head(nodes) IN
    IF node.Address = address \/ node.Address = "0.0.0.0"
    THEN SelectPeers(Tail(nodes), address, pol, acc)
    ELSE IF IsOffline(node, offlineThreshold) /\ ~HasConnectivity(node.Address)
    THEN IF pol = NotifyAll THEN [err |-> TRUE, peers |-> <<>>]
         ELSE IF pol = NotifyAlive
         THEN SelectPeers(Tail(nodes), address, pol, acc)
         ELSE SelectPeers(Tail(nodes), address, pol, Append(acc, node.Address))
    ELSE SelectPeers(Tail(nodes), address, pol, Append(acc, node.Address))

\* NewNotifier: the null notifier (no peers) when not clustered, otherwise the
\* outcome of the selection loop.
NewNotifier(nodes, address, pol) ==
  IF address = "" THEN [err |-> FALSE, peers |-> <<>>]
  ELSE SelectPeers(nodes, address, pol, <<>>)

\* A loop over errs that ignores nothing: the first error of any kind.
FirstOfAnyError(es, i, pol) ==
  LET bad == {j \in DOMAIN es : es[j] # "nil"} IN
    IF bad = {} THEN [err |-> "nil", peer |-> 0]
    ELSE [err |-> es[Min(bad)], peer |-> Min(bad)]

\* A loop over errs that only logs: no error is returned.
ErrorsOnlyLogged(es, i, pol) == [err |-> "nil", peer |-> 0]

\* The loop over errs after wg.Wait(): the first error that is not ignored.
RECURSIVE FirstError(_, _, _)
FirstError(es, i, pol) ==
  IF i > Len(es) THEN [err |-> "nil", peer |-> 0]
  ELSE IF es[i] # "nil"
  THEN IF IsConnectionError(es[i]) /\ pol = NotifyAlive
       THEN FirstError(es, i + 1, pol)
       ELSE [err |-> es[i], peer |-> i]
  ELSE FirstError(es, i + 1, pol)

\* A notify call that does not wait for its goroutines.
NothingAwaited == TRUE

\* wg.Wait(): every goroutine has called wg.Done().
AllDone == \A i \in DOMAIN nfPc : nfPc[i] = "done"

NotifyInit ==
  /\ nfAddress \in MemberAddresses \cup {""}
  /\ nfNodes \in
       {n \in [MemberIds -> [Address : MemberAddresses, HeartbeatAge : HeartbeatAges]] :
          \A i \in MemberIds : n[i].Address = AddressPool[i]}
  /\ nfUp \in SUBSET MemberAddresses
  /\ nfAddress # "" => nfAddress \in nfUp
  /\ policy \in NotifierPolicy
  /\ nfState = "init"
  /\ peers = <<>>
  /\ errs = <<>>
  /\ nfPc = <<>>
  /\ nfHooked = {}
  /\ nfResult = [err |-> "none", peer |-> 0]

\* A caller builds the notifier.
NewNotifierCall ==
  /\ nfState = "init"
  /\ LET r == NewNotifier(nfNodes, nfAddress, policy) IN
       /\ nfState' = IF r.err THEN "failed" ELSE "built"
       /\ peers' = r.peers
  /\ UNCHANGED <<nfAddress, nfNodes, nfUp, policy, errs, nfPc, nfHooked, nfResult>>
  /\ UNCHANGED notifyOthers

\* The caller invokes the notifier: one goroutine is started per peer.
NotifyCall ==
  /\ nfState = "built"
  /\ nfState' = "running"
  /\ errs' = [i \in DOMAIN peers |-> "nil"]
  /\ nfPc' = [i \in DOMAIN peers |-> "start"]
  /\ UNCHANGED <<nfAddress, nfNodes, nfUp, policy, peers, nfHooked, nfResult>>
  /\ UNCHANGED notifyOthers

\* Goroutine i: Connect fails, errs[i] is set, the hook is not invoked.
GoConnectFail(i) ==
  /\ nfState = "running"
  /\ nfPc[i] = "start"
  /\ \E e \in PeerErrors : errs' = [errs EXCEPT ![i] = e]
  /\ nfPc' = [nfPc EXCEPT ![i] = "done"]
  /\ UNCHANGED <<nfAddress, nfNodes, nfUp, policy, nfState, peers, nfHooked, nfResult>>
  /\ UNCHANGED notifyOthers

\* Goroutine i: Connect succeeds and the hook is invoked against the peer.
GoHook(i) ==
  /\ nfState = "running"
  /\ nfPc[i] = "start"
  /\ nfPc' = [nfPc EXCEPT ![i] = "hook"]
  /\ nfHooked' = nfHooked \cup {peers[i]}
  /\ UNCHANGED <<nfAddress, nfNodes, nfUp, policy, nfState, peers, errs, nfResult>>
  /\ UNCHANGED notifyOthers

\* Goroutine i: the hook returns, with an error or without.
GoHookReturn(i) ==
  /\ nfState = "running"
  /\ nfPc[i] = "hook"
  /\ \E e \in PeerErrors \cup {"nil"} : errs' = [errs EXCEPT ![i] = e]
  /\ nfPc' = [nfPc EXCEPT ![i] = "done"]
  /\ UNCHANGED <<nfAddress, nfNodes, nfUp, policy, nfState, peers, nfHooked, nfResult>>
  /\ UNCHANGED notifyOthers

\* The notify call returns after wg.Wait().
NotifyReturn ==
  /\ nfState = "running"
  /\ AllDone
  /\ nfState' = "returned"
  /\ nfResult' = FirstError(errs, 1, policy)
  /\ UNCHANGED <<nfAddress, nfNodes, nfUp, policy, peers, errs, nfPc, nfHooked>>
  /\ UNCHANGED notifyOthers

\* The notifier before anything has been asked of it.
NotifyIdle ==
  /\ nfAddress = ""
  /\ nfNodes = [i \in MemberIds |-> [Address |-> AddressPool[i], HeartbeatAge |-> 0]]
  /\ nfUp = MemberAddresses
  /\ policy = NotifyAll
  /\ nfState = "init"
  /\ peers = <<>>
  /\ errs = <<>>
  /\ nfPc = <<>>
  /\ nfHooked = {}
  /\ nfResult = [err |-> "none", peer |-> 0]

NotifyNext ==
  \/ NewNotifierCall
  \/ NotifyCall
  \/ \E i \in DOMAIN nfPc : GoConnectFail(i)
  \/ \E i \in DOMAIN nfPc : GoHook(i)
  \/ \E i \in DOMAIN nfPc : GoHookReturn(i)
  \/ NotifyReturn

(***************************************************************************)
(* Join tokens: POST /1.0/cluster/members                                  *)
(***************************************************************************)

\* Number of join-token requests.
MaxTokenRequests == 2

TokenRequests == 1..MaxTokenRequests

\* The server names a token can be requested for.
ServerNames == {"n1", "n2"}

NoTokenOp == [status |-> "none", serverName |-> "", member |-> 0]

IdleTokenReq == [pc |-> "idle", member |-> 0, serverName |-> "", todo |-> {}, result |-> ""]

\* The join-token operations that are Running for the server name.
RunningTokens(name) ==
  {o \in DOMAIN tkOps : tkOps[o].status = "Running" /\ tkOps[o].serverName = name}

\* The loop over ops: the operations that will be cancelled, those that were
\* Running for the requested name when operationsGetByType collected them.
TokensToCancel(ops, name) ==
  {o \in DOMAIN ops : ops[o].status = "Running" /\ ops[o].serverName = name}

TokenInit ==
  /\ tkOps = [o \in TokenRequests |-> NoTokenOp]
  /\ tkReq = [r \in TokenRequests |-> IdleTokenReq]
  /\ clusterNodesPostMu = [m \in MemberIds |-> 0]

\* The handler returns before taking the lock: there is no online member.
ClusterNodesPostNoOnline(r, m, name) ==
  /\ tkReq[r].pc = "idle"
  /\ tkReq' = [tkReq EXCEPT ![r] =
                 [IdleTokenReq EXCEPT !.pc = "done", !.member = m, !.serverName = name,
                                      !.result = "error"]]
  /\ UNCHANGED <<tkOps, clusterNodesPostMu>>
  /\ UNCHANGED tokenOthers

\* clusterNodesPostMu.Lock() on the member that handles the request.
ClusterNodesPostLock(r, m, name) ==
  /\ tkReq[r].pc = "idle"
  /\ clusterNodesPostMu[m] = 0
  /\ clusterNodesPostMu' = [clusterNodesPostMu EXCEPT ![m] = r]
  /\ tkReq' = [tkReq EXCEPT ![r] =
                 [IdleTokenReq EXCEPT !.pc = "locked", !.member = m, !.serverName = name]]
  /\ UNCHANGED tkOps
  /\ UNCHANGED tokenOthers

\* operationsGetByType: the join-token operations of all members are collected.
ClusterNodesPostList(r) ==
  /\ tkReq[r].pc = "locked"
  /\ tkReq' = [tkReq EXCEPT ![r].pc = "cancelling",
                            ![r].todo = TokensToCancel(tkOps, tkReq[r].serverName)]
  /\ UNCHANGED <<tkOps, clusterNodesPostMu>>
  /\ UNCHANGED tokenOthers

\* One iteration of the loop: operationCancel of a matching operation.
ClusterNodesPostCancel(r) ==
  /\ tkReq[r].pc = "cancelling"
  /\ tkReq[r].todo # {}
  /\ LET o == Min(tkReq[r].todo) IN
       /\ tkOps' = [tkOps EXCEPT ![o].status = "Cancelled"]
       /\ tkReq' = [tkReq EXCEPT ![r].todo = tkReq[r].todo \ {o}]
  /\ UNCHANGED clusterNodesPostMu
  /\ UNCHANGED tokenOthers

\* An error return while the lock is held (collecting or cancelling operations
\* failed, no secret or fingerprint): the deferred Unlock runs.
ClusterNodesPostError(r) ==
  /\ tkReq[r].pc \in {"locked", "cancelling"}
  /\ tkReq' = [tkReq EXCEPT ![r].pc = "done", ![r].todo = {}, ![r].result = "error"]
  /\ clusterNodesPostMu' = [clusterNodesPostMu EXCEPT ![tkReq[r].member] = 0]
  /\ UNCHANGED tkOps
  /\ UNCHANGED tokenOthers

\* OperationCreate of the new token operation, then the deferred Unlock.
ClusterNodesPostCreate(r) ==
  /\ tkReq[r].pc = "cancelling"
  /\ tkReq[r].todo = {}
  /\ tkOps' = [tkOps EXCEPT ![r] =
                 [status |-> "Running", serverName |-> tkReq[r].serverName,
                  member |-> tkReq[r].member]]
  /\ tkReq' = [tkReq EXCEPT ![r].pc = "done", ![r].result = "ok"]
  /\ clusterNodesPostMu' = [clusterNodesPostMu EXCEPT ![tkReq[r].member] = 0]
  /\ UNCHANGED tokenOthers

TokenNext ==
  \/ \E r \in TokenRequests, m \in MemberIds, name \in ServerNames :
       ClusterNodesPostNoOnline(r, m, name)
  \/ \E r \in TokenRequests, m \in MemberIds, name \in ServerNames :
       ClusterNodesPostLock(r, m, name)
  \/ \E r \in TokenRequests : ClusterNodesPostList(r)
  \/ \E r \in TokenRequests : ClusterNodesPostCancel(r)
  \/ \E r \in TokenRequests : ClusterNodesPostError(r)
  \/ \E r \in TokenRequests : ClusterNodesPostCreate(r)

(***************************************************************************)
(* Cluster certificate: PUT /1.0/cluster/certificate                       *)
(***************************************************************************)

\* Number of certificate rotation requests.
MaxCertRequests == 2

IdleCertReq == [pc |-> "idle", origin |-> 0, i |-> 0, gen |-> 0, before |-> <<>>, down |-> {}, result |-> ""]

\* d.gateway.NodeStore().Get(): the members, in the order of the node store.
Servers == [i \in MemberIds |-> i]

CertInit ==
  /\ crCert = [m \in MemberIds |-> 0]
  /\ crUp \in SUBSET MemberIds
  /\ crReq = IdleCertReq
  /\ crCount = 0

CertIdle ==
  /\ crCert = [m \in MemberIds |-> 0]
  /\ crUp = MemberIds
  /\ crReq = IdleCertReq
  /\ crCount = 0

\* The request is parsed on a reachable member; a certificate or key that is
\* not PEM is rejected.
ClusterCertificatePutBegin(o, pemOk) ==
  /\ crReq.pc \in {"idle", "done"}
  /\ crCount < MaxCertRequests
  /\ o \in crUp
  /\ crCount' = crCount + 1
  /\ crReq' = IF pemOk
              THEN [IdleCertReq EXCEPT !.pc = "forward", !.origin = o, !.i = 1,
                                       !.gen = crCount + 1, !.before = crCert,
                                       !.down = MemberIds \ crUp]
              ELSE [IdleCertReq EXCEPT !.pc = "done", !.origin = o, !.before = crCert,
                                       !.down = MemberIds \ crUp,
                                       !.result = "BadRequest"]
  /\ UNCHANGED <<crCert, crUp>>
  /\ UNCHANGED certOthers

\* The loop over servers: the local address is skipped.
CertForwardSkip ==
  /\ crReq.pc = "forward"
  /\ crReq.i <= NumNodes
  /\ Servers[crReq.i] = crReq.origin
  /\ crReq' = [crReq EXCEPT !.i = crReq.i + 1]
  /\ UNCHANGED <<crCert, crUp, crCount>>
  /\ UNCHANGED certOthers

\* The loop over servers: UpdateClusterCertificate on a peer that answers. The
\* peer runs clusterCertificatePut as a notification: it writes the
\* certificate and switches its endpoints to it.
CertForwardPeer ==
  /\ crReq.pc = "forward"
  /\ crReq.i <= NumNodes
  /\ Servers[crReq.i] # crReq.origin
  /\ Servers[crReq.i] \in crUp
  /\ crCert' = [crCert EXCEPT ![Servers[crReq.i]] = crReq.gen]
  /\ crReq' = [crReq EXCEPT !.i = crReq.i + 1]
  /\ UNCHANGED <<crUp, crCount>>
  /\ UNCHANGED certOthers

\* The loop over servers: the request to a peer fails, the handler returns
\* the error.
CertForwardFail ==
  /\ crReq.pc = "forward"
  /\ crReq.i <= NumNodes
  /\ Servers[crReq.i] # crReq.origin
  /\ Servers[crReq.i] \notin crUp
  /\ crReq' = [crReq EXCEPT !.pc = "done", !.result = "error"]
  /\ UNCHANGED <<crCert, crUp, crCount>>
  /\ UNCHANGED certOthers

\* After the loop: util.WriteCert, LoadClusterCert and NetworkUpdateCert on
\* the member that received the request.
CertLocalUpdate ==
  /\ crReq.pc = "forward"
  /\ crReq.i > NumNodes
  /\ \E ok \in BOOLEAN :
       IF ok
       THEN /\ crCert' = [crCert EXCEPT ![crReq.origin] = crReq.gen]
            /\ crReq' = [crReq EXCEPT !.pc = "done", !.result = "ok"]
       ELSE /\ crReq' = [crReq EXCEPT !.pc = "done", !.result = "error"]
            /\ UNCHANGED crCert
  /\ UNCHANGED <<crUp, crCount>>
  /\ UNCHANGED certOthers

\* Between two requests a member goes down or comes back.
CertPeerChange(m) ==
  /\ crReq.pc = "done"
  /\ crUp' = IF m \in crUp THEN crUp \ {m} ELSE crUp \cup {m}
  /\ UNCHANGED <<crCert, crReq, crCount>>
  /\ UNCHANGED certOthers

CertNext ==
  \/ \E o \in MemberIds, pemOk \in BOOLEAN : ClusterCertificatePutBegin(o, pemOk)
  \/ CertForwardSkip
  \/ CertForwardPeer
  \/ CertForwardFail
  \/ CertLocalUpdate
  \/ \E m \in MemberIds : CertPeerChange(m)

(***************************************************************************)
(* Member update: PUT/PATCH /1.0/cluster/members/{name}                    *)
(***************************************************************************)

\* Number of members that PUT requests are addressed to; member names are
\* their ids, and NumPutMembers + 1 is a name no member has.
NumPutMembers == 2

PutMembers == 1..NumPutMembers

PutNames == 1..(NumPutMembers + 1)

\* The requests that can be in flight at the same time.
PutRequests == {"a", "b"}

Descriptions == {"", "edge"}

ClusterRoleDatabase == "database"

\* The roles the roles table can hold.
ClusterRoles == {ClusterRoleDatabase}

\* The roles a request body can name.
RequestRoles == SUBSET {ClusterRoleDatabase, "bogus"}

\* The ClusterMemberPut of a member, which is what its ETag is computed from.
\* NodeInfo.ToAPI copies the description and the roles of the row.
ToAPI(description, roles) == [Description |-> description, Roles |-> roles]

\* util.EtagHash of a ClusterMemberPut: equal values, equal hashes.
Etag(put) == <<put.Description, put.Roles>>

\* The If-Match headers a request can carry; <<>> is no header.
IfMatches == {<<>>} \cup {Etag(ToAPI(d, rs)) : d \in Descriptions, rs \in SUBSET ClusterRoles}

\* util.EtagCheck: without a header the check passes.
EtagCheck(ifMatch, put) == ifMatch = <<>> \/ ifMatch = Etag(put)

\* A validation that lets the database role be dropped.
NothingDropped(memberRoles, reqRoles) == FALSE

\* A validation that lets the database role be added.
NothingAdded(memberRoles, reqRoles) == FALSE

\* The validation of clusterNodePut: the database role is neither dropped nor
\* added.
DropsDatabase(memberRoles, reqRoles) ==
  ClusterRoleDatabase \in memberRoles /\ ClusterRoleDatabase \notin reqRoles

AddsDatabase(memberRoles, reqRoles) ==
  ClusterRoleDatabase \notin memberRoles /\ ClusterRoleDatabase \in reqRoles

\* tx.UpdateNodeRoles, the update_roles of the membership store: fails on a
\* role the roles table does not know, and validates the transition from the
\* roles the member has to the ones written, which may neither add nor drop
\* the database role.
UpdateNodeRolesOk(memberRoles, roles) ==
  /\ roles \subseteq ClusterRoles
  /\ ~DropsDatabase(memberRoles, roles)
  /\ ~AddsDatabase(memberRoles, roles)

IdlePutReq ==
  [pc |-> "idle", name |-> 0, description |-> "", roles |-> {}, snapDescription |-> "",
   result |-> "", wrote |-> FALSE]

ClearsSameDescription(current, snapshot, description) ==
  IF description # snapshot THEN description ELSE ""

\* tx.SetDescription runs only when the description of the request differs
\* from the one read in the first transaction.
SetDescription(current, snapshot, description) ==
  IF description # snapshot THEN description ELSE current

PutInit ==
  /\ mbDescription = [m \in PutMembers |-> ""]
  /\ mbRoles \in [PutMembers -> SUBSET ClusterRoles]
  /\ mbInitRoles = mbRoles
  /\ putReq = [r \in PutRequests |-> IdlePutReq]

PutIdle ==
  /\ mbDescription = [m \in PutMembers |-> ""]
  /\ mbRoles = [m \in PutMembers |-> {}]
  /\ mbInitRoles = mbRoles
  /\ putReq = [r \in PutRequests |-> IdlePutReq]

\* The first transaction (GetNodeByName), ToAPI, the ETag check, the decoding
\* of the body and the validation of the roles.
ClusterNodePutRead(r, name, description, roles, ifMatch) ==
  /\ putReq[r].pc = "idle"
  /\ LET q == [IdlePutReq EXCEPT !.name = name, !.description = description,
                                 !.roles = roles]
         reject(res) == [q EXCEPT !.pc = "done", !.result = res]
     IN
       IF name \notin PutMembers
       THEN putReq' = [putReq EXCEPT ![r] = reject("NotFound")]
       ELSE
         LET member == ToAPI(mbDescription[name], mbRoles[name]) IN
         IF ~EtagCheck(ifMatch, member)
         THEN putReq' = [putReq EXCEPT ![r] = reject("PreconditionFailed")]
         ELSE IF DropsDatabase(member.Roles, roles) \/ AddsDatabase(member.Roles, roles)
         THEN putReq' = [putReq EXCEPT ![r] = reject("BadRequest")]
         ELSE putReq' = [putReq EXCEPT ![r] =
                           [q EXCEPT !.pc = "validated",
                                     !.snapDescription = member.Description]]
  /\ UNCHANGED <<mbDescription, mbRoles, mbInitRoles>>
  /\ UNCHANGED putOthers

\* The second transaction: SetDescription when the description differs from the
\* one read before, then UpdateNodeRoles; an error rolls the transaction back.
ClusterNodePutWrite(r) ==
  /\ putReq[r].pc = "validated"
  /\ LET q == putReq[r] IN
       IF UpdateNodeRolesOk(mbRoles[q.name], q.roles)
       THEN /\ mbDescription' =
                 [mbDescription EXCEPT ![q.name] =
                    SetDescription(mbDescription[q.name], q.snapDescription, q.description)]
            /\ mbRoles' = [mbRoles EXCEPT ![q.name] = q.roles]
            /\ putReq' = [putReq EXCEPT ![r].pc = "done", ![r].result = "OK",
                                        ![r].wrote = TRUE]
       ELSE /\ putReq' = [putReq EXCEPT ![r].pc = "done", ![r].result = "Error"]
            /\ UNCHANGED <<mbDescription, mbRoles>>
  /\ UNCHANGED mbInitRoles
  /\ UNCHANGED putOthers

\* The response has been sent; the request slot is free again.
ClusterNodePutDone(r) ==
  /\ putReq[r].pc = "done"
  /\ putReq' = [putReq EXCEPT ![r] = IdlePutReq]
  /\ UNCHANGED <<mbDescription, mbRoles, mbInitRoles>>
  /\ UNCHANGED putOthers

PutStep(slots) ==
  \/ \E r \in slots, name \in PutNames, description \in Descriptions,
        roles \in RequestRoles, ifMatch \in IfMatches :
       ClusterNodePutRead(r, name, description, roles, ifMatch)
  \/ \E r \in slots : ClusterNodePutWrite(r)
  \/ \E r \in slots : ClusterNodePutDone(r)

\* Requests handled concurrently.
PutNext == PutStep(PutRequests)

\* Requests handled one after the other.
PutNextSerial == PutStep({"a"})

\* Another request changes the roles of a member between the two
\* transactions of a PUT: the role manager gives the database role to a
\* member or takes it away.
DatabaseRoleChange(m) ==
  /\ mbRoles' = [mbRoles EXCEPT ![m] =
                   IF ClusterRoleDatabase \in mbRoles[m]
                   THEN mbRoles[m] \ {ClusterRoleDatabase}
                   ELSE mbRoles[m] \cup {ClusterRoleDatabase}]
  /\ UNCHANGED <<mbDescription, mbInitRoles, putReq>>
  /\ UNCHANGED putOthers

\* One PUT at a time, with role changes by the role manager in between.
PutNextRoles ==
  \/ PutStep({"a"})
  \/ \E m \in PutMembers : DatabaseRoleChange(m)

(***************************************************************************)
(* Self-removal: DELETE /1.0/cluster/members/{name} and clusterPutDisable  *)
(***************************************************************************)

\* The HTTP requests of one removal: the client's DELETE, the DELETE that a
\* non-leader forwards to the leader, and the PUT /cluster (enabled=false)
\* that the leader sends to the removed member.
RemovalRequests == {"client", "forward", "disable"}

IdleReq == [pc |-> "idle", result |-> ""]

NoDelete == [origin |-> 0, name |-> 0, force |-> FALSE]

NoReplaceGo == [node |-> 0, waits |-> "", pc |-> "none"]

\* The request that runs the leader side of clusterNodeDelete.
LeaderRequest == IF rmDelete.origin = rmLeader THEN "client" ELSE "forward"

\* A goroutine that unlocks without waiting for the request context.
ContextIgnored == TRUE

\* <-r.Context().Done() in the goroutine started by clusterNodeDelete.
DeleteContextDone == "client" \in rmCtxDone

\* <-r.Context().Done() in the goroutine started by clusterPutDisable.
DisableContextDone(q) == q \in rmCtxDone

\* clusterPutDisableMu.Lock() returns only when the mutex is free.
DisableMuFree(node) == clusterPutDisableMu[node] = ""

RemovalInit ==
  /\ rmLeader \in MemberIds
  /\ rmDelete = NoDelete
  /\ rmReq = [q \in RemovalRequests |-> IdleReq]
  /\ rmCtxDone = {}
  /\ rmMembers = MemberIds
  /\ rmMembershipMutex = ""
  /\ clusterPutDisableMu = [m \in MemberIds |-> ""]
  /\ rmUnlockGo = "none"
  /\ rmReplaceGo = NoReplaceGo
  /\ rmDaemon = [m \in MemberIds |-> "running"]

RemovalIdle ==
  /\ rmLeader = 1
  /\ rmDelete = NoDelete
  /\ rmReq = [q \in RemovalRequests |-> IdleReq]
  /\ rmCtxDone = {}
  /\ rmMembers = MemberIds
  /\ rmMembershipMutex = ""
  /\ clusterPutDisableMu = [m \in MemberIds |-> ""]
  /\ rmUnlockGo = "none"
  /\ rmReplaceGo = NoReplaceGo
  /\ rmDaemon = [m \in MemberIds |-> "running"]

\* clusterNodeDelete on the member that received the client's request, up to
\* the comparison of the local address with the leader address.
ClusterNodeDeleteBegin(x, name, force) ==
  /\ rmReq["client"].pc = "idle"
  /\ rmDelete' = [origin |-> x, name |-> name, force |-> force]
  /\ rmReq' = [rmReq EXCEPT !["client"].pc =
                 IF x # rmLeader
                 THEN IF x = name THEN "lock" ELSE "forward"
                 ELSE "mutex"]
  /\ UNCHANGED <<rmLeader, rmCtxDone, rmMembers, rmMembershipMutex, clusterPutDisableMu,
                 rmUnlockGo, rmReplaceGo, rmDaemon>>
  /\ UNCHANGED removalOthers

\* A non-leader removing itself: clusterPutDisableMu.Lock(), and the goroutine
\* that will unlock is started.
SelfRemovalLock ==
  /\ rmReq["client"].pc = "lock"
  /\ DisableMuFree(rmDelete.origin)
  /\ clusterPutDisableMu' = [clusterPutDisableMu EXCEPT ![rmDelete.origin] = "delete"]
  /\ rmUnlockGo' = "waiting"
  /\ rmReq' = [rmReq EXCEPT !["client"].pc = "forward"]
  /\ UNCHANGED <<rmLeader, rmDelete, rmCtxDone, rmMembers, rmMembershipMutex, rmReplaceGo,
                 rmDaemon>>
  /\ UNCHANGED removalOthers

\* cluster.Connect to the leader and client.DeleteClusterMember: the request
\* reaches the leader, or fails and the handler returns the error.
ForwardToLeader ==
  /\ rmReq["client"].pc = "forward"
  /\ \E ok \in BOOLEAN :
       rmReq' = IF ok
                THEN [rmReq EXCEPT !["client"].pc = "waiting", !["forward"].pc = "mutex"]
                ELSE [rmReq EXCEPT !["client"] = [pc |-> "returned", result |-> "error"]]
  /\ UNCHANGED <<rmLeader, rmDelete, rmCtxDone, rmMembers, rmMembershipMutex,
                 clusterPutDisableMu, rmUnlockGo, rmReplaceGo, rmDaemon>>
  /\ UNCHANGED removalOthers

\* On the leader: d.clusterMembershipMutex.Lock().
LeaderLock ==
  /\ rmReq[LeaderRequest].pc = "mutex"
  /\ rmMembershipMutex = ""
  /\ rmMembershipMutex' = LeaderRequest
  /\ rmReq' = [rmReq EXCEPT ![LeaderRequest].pc = "removing"]
  /\ UNCHANGED <<rmLeader, rmDelete, rmCtxDone, rmMembers, clusterPutDisableMu, rmUnlockGo,
                 rmReplaceGo, rmDaemon>>
  /\ UNCHANGED removalOthers

\* On the leader: image sync, Leave, deletion of the networks and pools of
\* the leaving member, Purge and rebalance; an error before Purge is returned.
LeaderRemove ==
  /\ rmReq[LeaderRequest].pc = "removing"
  /\ \E ok \in BOOLEAN :
       IF ok /\ rmDelete.name \in rmMembers
       THEN /\ rmMembers' = rmMembers \ {rmDelete.name}
            /\ rmReq' = [rmReq EXCEPT ![LeaderRequest].pc = "cleanup"]
            /\ UNCHANGED rmMembershipMutex
       ELSE /\ rmReq' = [rmReq EXCEPT ![LeaderRequest] =
                           [pc |-> "returned", result |-> "error"]]
            /\ rmMembershipMutex' = ""
            /\ UNCHANGED rmMembers
  /\ UNCHANGED <<rmLeader, rmDelete, rmCtxDone, clusterPutDisableMu, rmUnlockGo, rmReplaceGo,
                 rmDaemon>>
  /\ UNCHANGED removalOthers

\* The leader removed itself: clusterPutDisable runs in the same request. On
\* success its goroutine is started and the response is returned.
LeaderDisableSelf ==
  /\ rmReq[LeaderRequest].pc = "cleanup"
  /\ rmDelete.name = rmLeader
  /\ \E ok \in BOOLEAN :
       IF ok
       THEN /\ rmReplaceGo' = [node |-> rmLeader, waits |-> LeaderRequest, pc |-> "waitctx"]
            /\ rmReq' = [rmReq EXCEPT ![LeaderRequest] = [pc |-> "returned", result |-> "ok"]]
       ELSE /\ rmReq' = [rmReq EXCEPT ![LeaderRequest] =
                           [pc |-> "returned", result |-> "error"]]
            /\ UNCHANGED rmReplaceGo
  /\ rmMembershipMutex' = ""
  /\ UNCHANGED <<rmLeader, rmDelete, rmCtxDone, rmMembers, clusterPutDisableMu, rmUnlockGo,
                 rmDaemon>>
  /\ UNCHANGED removalOthers

\* A remote member was removed without force: client.UpdateCluster with
\* enabled=false is sent to it, or Connect fails and the error is returned.
LeaderDisableRemote ==
  /\ rmReq[LeaderRequest].pc = "cleanup"
  /\ rmDelete.name # rmLeader
  /\ ~rmDelete.force
  /\ \E ok \in BOOLEAN :
       IF ok
       THEN /\ rmReq' = [rmReq EXCEPT ![LeaderRequest].pc = "waitdisable",
                                      !["disable"].pc = "handling"]
            /\ UNCHANGED rmMembershipMutex
       ELSE /\ rmReq' = [rmReq EXCEPT ![LeaderRequest] =
                           [pc |-> "returned", result |-> "error"]]
            /\ rmMembershipMutex' = ""
  /\ UNCHANGED <<rmLeader, rmDelete, rmCtxDone, rmMembers, clusterPutDisableMu, rmUnlockGo,
                 rmReplaceGo, rmDaemon>>
  /\ UNCHANGED removalOthers

\* A remote member was removed with force: nothing is sent to it.
LeaderReturnForced ==
  /\ rmReq[LeaderRequest].pc = "cleanup"
  /\ rmDelete.name # rmLeader
  /\ rmDelete.force
  /\ rmReq' = [rmReq EXCEPT ![LeaderRequest] = [pc |-> "returned", result |-> "ok"]]
  /\ rmMembershipMutex' = ""
  /\ UNCHANGED <<rmLeader, rmDelete, rmCtxDone, rmMembers, clusterPutDisableMu, rmUnlockGo,
                 rmReplaceGo, rmDaemon>>
  /\ UNCHANGED removalOthers

\* A clusterPutDisable that takes clusterPutDisableMu in the handler itself.
DisableUnderLock ==
  /\ rmReq["disable"].pc = "handling"
  /\ DisableMuFree(rmDelete.name)
  /\ rmReplaceGo' = [node |-> rmDelete.name, waits |-> "disable", pc |-> "waitctx"]
  /\ rmReq' = [rmReq EXCEPT !["disable"] = [pc |-> "returned", result |-> "ok"]]
  /\ UNCHANGED <<rmLeader, rmDelete, rmCtxDone, rmMembers, rmMembershipMutex,
                 clusterPutDisableMu, rmUnlockGo, rmDaemon>>
  /\ UNCHANGED removalOthers

\* clusterPut with enabled=false on the removed member: clusterPutDisable
\* closes and resets the database, starts its goroutine and responds.
ClusterPutDisable ==
  /\ rmReq["disable"].pc = "handling"
  /\ \E ok \in BOOLEAN :
       IF ok
       THEN /\ rmReplaceGo' = [node |-> rmDelete.name, waits |-> "disable", pc |-> "waitctx"]
            /\ rmReq' = [rmReq EXCEPT !["disable"] = [pc |-> "returned", result |-> "ok"]]
       ELSE /\ rmReq' = [rmReq EXCEPT !["disable"] = [pc |-> "returned", result |-> "error"]]
            /\ UNCHANGED rmReplaceGo
  /\ UNCHANGED <<rmLeader, rmDelete, rmCtxDone, rmMembers, rmMembershipMutex,
                 clusterPutDisableMu, rmUnlockGo, rmDaemon>>
  /\ UNCHANGED removalOthers

\* The leader has the answer of the removed member and returns.
LeaderDisableResponse ==
  /\ rmReq[LeaderRequest].pc = "waitdisable"
  /\ rmReq["disable"].pc = "returned"
  /\ rmReq' = [rmReq EXCEPT ![LeaderRequest] =
                 [pc |-> "returned", result |-> rmReq["disable"].result]]
  /\ rmMembershipMutex' = ""
  /\ UNCHANGED <<rmLeader, rmDelete, rmCtxDone, rmMembers, clusterPutDisableMu, rmUnlockGo,
                 rmReplaceGo, rmDaemon>>
  /\ UNCHANGED removalOthers

\* The non-leader has the answer of the leader and returns it to the client
\* (an error, or the manual response that is flushed).
OriginResponse ==
  /\ rmReq["client"].pc = "waiting"
  /\ rmReq["forward"].pc = "returned"
  /\ rmReq' = [rmReq EXCEPT !["client"] =
                 [pc |-> "returned", result |-> rmReq["forward"].result]]
  /\ UNCHANGED <<rmLeader, rmDelete, rmCtxDone, rmMembers, rmMembershipMutex,
                 clusterPutDisableMu, rmUnlockGo, rmReplaceGo, rmDaemon>>
  /\ UNCHANGED removalOthers

\* The context of a request is done once its handler has returned and the
\* response has been written.
RequestFinished(q) ==
  /\ rmReq[q].pc = "returned"
  /\ q \notin rmCtxDone
  /\ rmCtxDone' = rmCtxDone \cup {q}
  /\ UNCHANGED <<rmLeader, rmDelete, rmReq, rmMembers, rmMembershipMutex,
                 clusterPutDisableMu, rmUnlockGo, rmReplaceGo, rmDaemon>>
  /\ UNCHANGED removalOthers

\* The client closes its connection while the non-leader waits for the
\* leader: the context is done and the forwarded call returns an error.
ClientDisconnect ==
  /\ rmReq["client"].pc = "waiting"
  /\ "client" \notin rmCtxDone
  /\ rmCtxDone' = rmCtxDone \cup {"client"}
  /\ rmReq' = [rmReq EXCEPT !["client"] = [pc |-> "returned", result |-> "error"]]
  /\ UNCHANGED <<rmLeader, rmDelete, rmMembers, rmMembershipMutex, clusterPutDisableMu,
                 rmUnlockGo, rmReplaceGo, rmDaemon>>
  /\ UNCHANGED removalOthers

\* The goroutine of clusterNodeDelete: after the context of the client's
\* request is done, clusterPutDisableMu.Unlock().
SelfRemovalUnlock ==
  /\ rmUnlockGo = "waiting"
  /\ DeleteContextDone
  /\ clusterPutDisableMu' = [clusterPutDisableMu EXCEPT ![rmDelete.origin] = ""]
  /\ rmUnlockGo' = "done"
  /\ UNCHANGED <<rmLeader, rmDelete, rmReq, rmCtxDone, rmMembers, rmMembershipMutex,
                 rmReplaceGo, rmDaemon>>
  /\ UNCHANGED removalOthers

\* The goroutine of clusterPutDisable: the context of its request is done.
ReplaceGoContext ==
  /\ rmReplaceGo.pc = "waitctx"
  /\ DisableContextDone(rmReplaceGo.waits)
  /\ rmReplaceGo' = [rmReplaceGo EXCEPT !.pc = "waitlock"]
  /\ UNCHANGED <<rmLeader, rmDelete, rmReq, rmCtxDone, rmMembers, rmMembershipMutex,
                 clusterPutDisableMu, rmUnlockGo, rmDaemon>>
  /\ UNCHANGED removalOthers

\* The goroutine of clusterPutDisable: clusterPutDisableMu.Lock().
ReplaceGoLock ==
  /\ rmReplaceGo.pc = "waitlock"
  /\ DisableMuFree(rmReplaceGo.node)
  /\ clusterPutDisableMu' = [clusterPutDisableMu EXCEPT ![rmReplaceGo.node] = "replace"]
  /\ rmReplaceGo' = [rmReplaceGo EXCEPT !.pc = "locked"]
  /\ UNCHANGED <<rmLeader, rmDelete, rmReq, rmCtxDone, rmMembers, rmMembershipMutex,
                 rmUnlockGo, rmDaemon>>
  /\ UNCHANGED removalOthers

\* The goroutine of clusterPutDisable: os.Exit(0) or util.ReplaceDaemon(); when
\* ReplaceDaemon fails the error is logged and the deferred Unlock runs.
ReplaceDaemon ==
  /\ rmReplaceGo.pc = "locked"
  /\ \E ok \in BOOLEAN :
       IF ok
       THEN /\ rmDaemon' = [rmDaemon EXCEPT ![rmReplaceGo.node] = "replaced"]
            /\ rmReplaceGo' = [rmReplaceGo EXCEPT !.pc = "done"]
            /\ UNCHANGED clusterPutDisableMu
       ELSE /\ clusterPutDisableMu' = [clusterPutDisableMu EXCEPT ![rmReplaceGo.node] = ""]
            /\ rmReplaceGo' = [rmReplaceGo EXCEPT !.pc = "failed"]
            /\ UNCHANGED rmDaemon
  /\ UNCHANGED <<rmLeader, rmDelete, rmReq, rmCtxDone, rmMembers, rmMembershipMutex,
                 rmUnlockGo>>
  /\ UNCHANGED removalOthers

RemovalNext ==
  \/ \E x \in MemberIds, name \in MemberIds, force \in BOOLEAN :
       ClusterNodeDeleteBegin(x, name, force)
  \/ SelfRemovalLock
  \/ ForwardToLeader
  \/ LeaderLock
  \/ LeaderRemove
  \/ LeaderDisableSelf
  \/ LeaderDisableRemote
  \/ LeaderReturnForced
  \/ ClusterPutDisable
  \/ LeaderDisableResponse
  \/ OriginResponse
  \/ \E q \in RemovalRequests : RequestFinished(q)
  \/ ClientDisconnect
  \/ SelfRemovalUnlock
  \/ ReplaceGoContext
  \/ ReplaceGoLock
  \/ ReplaceDaemon

\* Every handler and goroutine that can take a step eventually takes one;
\* only the client is free not to send a request or to keep its connection.
RemovalFairness ==
  /\ WF_vars(SelfRemovalLock)
  /\ WF_vars(ForwardToLeader)
  /\ WF_vars(LeaderLock)
  /\ WF_vars(LeaderRemove)
  /\ WF_vars(LeaderDisableSelf)
  /\ WF_vars(LeaderDisableRemote)
  /\ WF_vars(LeaderReturnForced)
  /\ WF_vars(ClusterPutDisable)
  /\ WF_vars(LeaderDisableResponse)
  /\ WF_vars(OriginResponse)
  /\ \A q \in RemovalRequests : WF_vars(RequestFinished(q))
  /\ WF_vars(SelfRemovalUnlock)
  /\ WF_vars(ReplaceGoContext)
  /\ WF_vars(ReplaceGoLock)
  /\ WF_vars(ReplaceDaemon)

(***************************************************************************)
(* Raft roles: /internal/cluster/rebalance, /internal/cluster/handover,    *)
(* DELETE /1.0/cluster/members/{name} on the leader and                    *)
(* DELETE /internal/cluster/raft-node/{address}                            *)
(***************************************************************************)

\* Number of members of the cluster whose roles are managed; a member's id
\* stands for its name and its address, 0 for the empty address.
NumRaftMembers == 4

RaftMembers == 1..NumRaftMembers

\* The request slots: two requests can be in flight at the same time.
RoleRequests == {"p", "q"}

RaftVoter == "voter"
RaftStandBy == "stand-by"
RaftSpare == "spare"

RaftRoles == {RaftVoter, RaftStandBy, RaftSpare}

\* Target numbers of voters and stand-bys.
MaxVoters == 3
MaxStandBys == 2

NoChange == [address |-> 0, role |-> ""]

\* A request slot: local tells how the cluster address of the handling member
\* compared with the leader address, steps lists what a member delete has
\* done, changes counts the role changes rebalanceMemberRoles has applied.
IdleRoleReq ==
  [kind |-> "", pc |-> "idle", local |-> "", arg |-> 0, force |-> FALSE, address |-> 0,
   role |-> "", steps |-> <<>>, changes |-> 0, result |-> ""]

RaftNodesOf(raft) == {m \in RaftMembers : raft[m] # ""}

WithRole(raft, role, up, online) ==
  {m \in RaftMembers : raft[m] = role /\ ((m \in up) = online)}

\* cluster.Rebalance: the next single role change, or NoChange. An offline
\* voter is demoted to spare before anything is promoted; voters are filled
\* before stand-bys, stand-bys are preferred over spares, then the lowest id.
Rebalance(raft, up) ==
  LET onlineVoters == WithRole(raft, RaftVoter, up, TRUE)
      offlineVoters == WithRole(raft, RaftVoter, up, FALSE)
      onlineStandBys == WithRole(raft, RaftStandBy, up, TRUE)
      offlineStandBys == WithRole(raft, RaftStandBy, up, FALSE)
      onlineSpares == WithRole(raft, RaftSpare, up, TRUE)
  IN
    IF Cardinality(RaftNodesOf(raft)) <= 1 THEN NoChange
    ELSE IF offlineVoters # {} THEN [address |-> Min(offlineVoters), role |-> RaftSpare]
    ELSE IF Cardinality(onlineVoters) < MaxVoters /\ onlineStandBys # {}
    THEN [address |-> Min(onlineStandBys), role |-> RaftVoter]
    ELSE IF Cardinality(onlineVoters) < MaxVoters /\ onlineSpares # {}
    THEN [address |-> Min(onlineSpares), role |-> RaftVoter]
    ELSE IF offlineStandBys # {} THEN [address |-> Min(offlineStandBys), role |-> RaftSpare]
    ELSE IF Cardinality(onlineStandBys) < MaxStandBys /\ onlineSpares # {}
    THEN [address |-> Min(onlineSpares), role |-> RaftStandBy]
    ELSE NoChange

\* cluster.Handover: the member that takes over the role of the leaving
\* member, or NoChange when the leaver has nothing to hand over or there is no
\* candidate.
Handover(raft, up, address) ==
  LET candidates ==
        IF WithRole(raft, RaftStandBy, up, TRUE) \ {address} # {}
        THEN WithRole(raft, RaftStandBy, up, TRUE) \ {address}
        ELSE WithRole(raft, RaftSpare, up, TRUE) \ {address}
  IN
    IF address \notin RaftMembers \/ raft[address] # RaftVoter \/ candidates = {}
    THEN NoChange
    ELSE [address |-> Min(candidates), role |-> RaftVoter]

\* The requests that are inside the steps that compute and apply role
\* changes on the leader.
RoleChangePcs ==
  {"rebalance", "apply", "handover", "promote", "demote", "promote-other"}

InRoleChange(s) == rlReq[s].pc \in RoleChangePcs

RolesInit ==
  /\ rlLeader = 1
  /\ rlMembers = RaftMembers
  /\ rlUp \in {u \in SUBSET RaftMembers : rlLeader \in u}
  /\ rlRaft \in {r \in [RaftMembers -> RaftRoles] :
                   /\ r[rlLeader] = RaftVoter
                   /\ Cardinality({m \in RaftMembers : r[m] = RaftVoter}) <= MaxVoters
                   /\ Cardinality({m \in RaftMembers : r[m] = RaftStandBy}) <= MaxStandBys}
  /\ rlReq = [s \in RoleRequests |-> IdleRoleReq]
  /\ clusterMembershipMutex = ""

RolesIdle ==
  /\ rlLeader = 1
  /\ rlMembers = RaftMembers
  /\ rlUp = RaftMembers
  /\ rlRaft = [m \in RaftMembers |-> RaftVoter]
  /\ rlReq = [s \in RoleRequests |-> IdleRoleReq]
  /\ clusterMembershipMutex = ""

\* A handler returns: its slot records the result and, when the handler
\* holds the membership mutex, the deferred Unlock runs.
Returned(s, result) ==
  [rlReq EXCEPT ![s] =
     IF rlReq[s].kind = "delete"
     THEN [IdleRoleReq EXCEPT !.kind = "delete", !.pc = "done", !.arg = rlReq[s].arg,
                              !.force = rlReq[s].force, !.steps = rlReq[s].steps,
                              !.result = result]
     ELSE [IdleRoleReq EXCEPT !.kind = rlReq[s].kind, !.pc = "done",
                              !.changes = rlReq[s].changes, !.result = result]]

\* The step is appended to what the member delete of the slot has done.
Did(s, step) == [rlReq EXCEPT ![s].steps = Append(rlReq[s].steps, step)]

Unlocked(s) == IF clusterMembershipMutex = s THEN "" ELSE clusterMembershipMutex

\* A handler that treats every member as the leader.
EveryMemberLeads(node, leader) == TRUE

\* address != leader fails: the handler runs on the leader.
OnLeader(node, leader) == node = leader

\* How the local cluster address compares with what d.gateway.LeaderAddress()
\* returned: 0 stands for an empty leader address.
Local(node, leader) ==
  IF leader = 0 THEN "no-leader" ELSE IF node = leader THEN "leader" ELSE "other"

\* What LeaderAddress can return: the address of the leader, or none.
LeaderAddresses == {rlLeader, 0}

\* The leader is still a member and a raft node: requests are followed up to
\* the removal of the leader, not into the term of its successor.
LeaderServes == rlLeader \in rlMembers /\ rlRaft[rlLeader] # ""

\* internalClusterPostAccept up to the comparison with the leader address.
PostAcceptBegin(s, node, name, leader) ==
  /\ rlReq[s].pc = "idle"
  /\ LeaderServes
  /\ node \in rlUp
  /\ name # 0 => name \in rlUp
  /\ rlReq' = [rlReq EXCEPT ![s] =
                 IF name = 0
                 THEN [IdleRoleReq EXCEPT !.kind = "accept", !.pc = "done",
                                          !.result = "BadRequest"]
                 ELSE IF ~OnLeader(node, leader)
                 THEN IF leader = 0
                      THEN [IdleRoleReq EXCEPT !.kind = "accept", !.pc = "done",
                                               !.local = Local(node, leader),
                                               !.result = "error"]
                      ELSE [IdleRoleReq EXCEPT !.kind = "accept", !.pc = "done",
                                               !.local = Local(node, leader),
                                               !.address = leader, !.result = "redirect"]
                 ELSE [IdleRoleReq EXCEPT !.kind = "accept", !.pc = "mutex",
                                          !.local = Local(node, leader), !.arg = name]]
  /\ UNCHANGED <<rlMembers, rlRaft, rlUp, rlLeader, clusterMembershipMutex>>
  /\ UNCHANGED rolesOthers

\* internalClusterPostRebalance up to the comparison with the leader address.
PostRebalanceBegin(s, node, leader) ==
  /\ rlReq[s].pc = "idle"
  /\ LeaderServes
  /\ node \in rlUp
  /\ rlReq' = [rlReq EXCEPT ![s] =
                 IF ~OnLeader(node, leader)
                 THEN [IdleRoleReq EXCEPT !.kind = "rebalance", !.pc = "done",
                                          !.local = Local(node, leader),
                                          !.address = leader, !.result = "redirect"]
                 ELSE [IdleRoleReq EXCEPT !.kind = "rebalance", !.pc = "mutex",
                                          !.local = Local(node, leader)]]
  /\ UNCHANGED <<rlMembers, rlRaft, rlUp, rlLeader, clusterMembershipMutex>>
  /\ UNCHANGED rolesOthers

\* The addresses of handover requests: handoverMemberRole sends its own
\* cluster address once it is not the leader address (it transfers the
\* leadership first); 0 stands for an empty address.
HandoverAddresses == (RaftMembers \cup {0}) \ {rlLeader}

\* internalClusterPostHandover up to the comparison with the leader address.
PostHandoverBegin(s, node, address, leader) ==
  /\ rlReq[s].pc = "idle"
  /\ LeaderServes
  /\ node \in rlUp
  /\ address # 0 => address \in rlUp
  /\ rlReq' = [rlReq EXCEPT ![s] =
                 IF address = 0
                 THEN [IdleRoleReq EXCEPT !.kind = "handover", !.pc = "done",
                                          !.result = "BadRequest"]
                 ELSE IF leader = 0
                 THEN [IdleRoleReq EXCEPT !.kind = "handover", !.pc = "done",
                                          !.local = Local(node, leader),
                                          !.result = "error"]
                 ELSE IF ~OnLeader(node, leader)
                 THEN [IdleRoleReq EXCEPT !.kind = "handover", !.pc = "done",
                                          !.local = Local(node, leader),
                                          !.address = leader, !.result = "redirect"]
                 ELSE [IdleRoleReq EXCEPT !.kind = "handover", !.pc = "mutex",
                                          !.local = Local(node, leader), !.arg = address]]
  /\ UNCHANGED <<rlMembers, rlRaft, rlUp, rlLeader, clusterMembershipMutex>>
  /\ UNCHANGED rolesOthers

\* The member that clusterNodeDelete promotes before it removes the leader of
\* a two node cluster: the first stand-by of the raft nodes it has read, 0
\* when the removal is not of that kind.
RemainingStandBy(raft, leader, name) ==
  LET others == {m \in RaftNodesOf(raft) : m # leader /\ raft[m] = RaftStandBy} IN
    IF name = leader /\ Cardinality(RaftNodesOf(raft)) = 2 /\ others # {}
    THEN Min(others)
    ELSE 0

\* clusterNodeDelete up to the comparison with the leader address: the raft
\* nodes are read here, before the mutex is taken. A member that is not the
\* leader forwards the request.
NodeDeleteBegin(s, node, name, force) ==
  /\ rlReq[s].pc = "idle"
  /\ LeaderServes
  /\ node \in rlUp
  /\ rlReq' = [rlReq EXCEPT ![s] =
                 IF node # rlLeader
                 THEN [IdleRoleReq EXCEPT !.kind = "delete", !.pc = "done",
                                          !.result = "forwarded"]
                 ELSE [IdleRoleReq EXCEPT !.kind = "delete", !.pc = "mutex", !.arg = name,
                                          !.force = force,
                                          !.address = RemainingStandBy(rlRaft, rlLeader, name)]]
  /\ UNCHANGED <<rlMembers, rlRaft, rlUp, rlLeader, clusterMembershipMutex>>
  /\ UNCHANGED rolesOthers

\* internalClusterRaftNodeDelete: cluster.RemoveRaftNode, then
\* rebalanceMemberRoles, which does nothing on a member that is not the leader.
RaftNodeDeleteBegin(s, node, address) ==
  /\ rlReq[s].pc = "idle"
  /\ LeaderServes
  /\ node \in rlUp
  /\ IF address \in RaftNodesOf(rlRaft) /\ address # rlLeader
     THEN /\ rlRaft' = [rlRaft EXCEPT ![address] = ""]
          /\ rlReq' = [rlReq EXCEPT ![s] =
                         IF node = rlLeader
                         THEN [IdleRoleReq EXCEPT !.kind = "raft-delete", !.pc = "rebalance",
                                                  !.arg = address]
                         ELSE [IdleRoleReq EXCEPT !.kind = "raft-delete", !.pc = "done",
                                                  !.result = "ok"]]
     ELSE /\ rlReq' = [rlReq EXCEPT ![s] =
                         [IdleRoleReq EXCEPT !.kind = "raft-delete", !.pc = "done",
                                             !.result = "error"]]
          /\ UNCHANGED rlRaft
  /\ UNCHANGED <<rlMembers, rlUp, rlLeader, clusterMembershipMutex>>
  /\ UNCHANGED rolesOthers

\* d.clusterMembershipMutex.Lock() on the leader.
MembershipLock(s) ==
  /\ rlReq[s].pc = "mutex"
  /\ clusterMembershipMutex = ""
  /\ clusterMembershipMutex' = s
  /\ rlReq' = [rlReq EXCEPT ![s].pc =
                 CASE rlReq[s].kind = "rebalance" -> "rebalance"
                   [] rlReq[s].kind = "handover" -> "handover"
                   [] rlReq[s].kind = "accept" -> "accept"
                   [] OTHER -> "promote-other"]
  /\ UNCHANGED <<rlMembers, rlRaft, rlUp, rlLeader>>
  /\ UNCHANGED rolesOthers

\* cluster.Accept: the raft role given to a member that joins: voter while
\* there are fewer voters than the target, then stand-by, then spare.
AcceptRole(raft) ==
  IF Cardinality({m \in RaftMembers : raft[m] = RaftVoter}) < MaxVoters THEN RaftVoter
  ELSE IF Cardinality({m \in RaftMembers : raft[m] = RaftStandBy}) < MaxStandBys
  THEN RaftStandBy
  ELSE RaftSpare

\* internalClusterPostAccept under the mutex: the storage pools and networks
\* of the joiner are compared with those of the cluster, then cluster.Accept
\* inserts the Member row and the raft node unless the name is taken.
AcceptMember(s) ==
  /\ rlReq[s].pc = "accept"
  /\ \E match \in BOOLEAN :
       IF ~match
       THEN /\ rlReq' = Returned(s, "error")
            /\ UNCHANGED <<rlMembers, rlRaft>>
       ELSE IF rlReq[s].arg \in rlMembers
       THEN /\ rlReq' = Returned(s, "BadRequest")
            /\ UNCHANGED <<rlMembers, rlRaft>>
       ELSE /\ rlMembers' = rlMembers \cup {rlReq[s].arg}
            /\ rlRaft' = [rlRaft EXCEPT ![rlReq[s].arg] = AcceptRole(rlRaft)]
            /\ rlReq' = Returned(s, "ok")
  /\ clusterMembershipMutex' = Unlocked(s)
  /\ UNCHANGED <<rlUp, rlLeader>>
  /\ UNCHANGED rolesOthers

ErrorSwallowed(s, err) ==
  IF rlReq[s].kind = "delete"
  THEN [Did(s, "rebalance") EXCEPT ![s].pc = "disable", ![s].address = 0, ![s].role = ""]
  ELSE Returned(s, "ok")

\* Where a handler goes on when rebalanceMemberRoles returns: the rebalance
\* handler returns the error, the two delete handlers only log it.
AfterRebalance(s, err) ==
  IF rlReq[s].kind = "delete"
  THEN [Did(s, "rebalance") EXCEPT ![s].pc = "disable", ![s].address = 0, ![s].role = ""]
  ELSE IF rlReq[s].kind = "rebalance" /\ err THEN Returned(s, "error")
  ELSE Returned(s, "ok")

\* rebalanceMemberRoles, label again: cluster.Rebalance.
RebalanceCompute(s) ==
  /\ rlReq[s].pc = "rebalance"
  /\ LET change == Rebalance(rlRaft, rlUp) IN
       IF change.address = 0
       THEN /\ rlReq' = AfterRebalance(s, FALSE)
            /\ clusterMembershipMutex' =
                 IF rlReq[s].kind = "delete" THEN clusterMembershipMutex ELSE Unlocked(s)
       ELSE /\ rlReq' = [rlReq EXCEPT ![s].pc = "apply", ![s].address = change.address,
                                      ![s].role = change.role]
            /\ UNCHANGED clusterMembershipMutex
  /\ UNCHANGED <<rlMembers, rlRaft, rlUp, rlLeader>>
  /\ UNCHANGED rolesOthers

\* The role changes that are followed within one call of
\* rebalanceMemberRoles; requests handled one after the other need fewer.
MaxRoleChanges == 4

\* The role change is applied to the raft nodes.
WithChange(raft, address, role) ==
  [raft EXCEPT ![address] = IF raft[address] = "" THEN "" ELSE role]

\* The iteration of the loop is over: goto again. The slot keeps the change
\* that was applied until the next one is computed.
Again(s) == [rlReq EXCEPT ![s].pc = "rebalance", ![s].changes = rlReq[s].changes + 1]

DemoteAndPromote(s) ==
  /\ rlReq[s].pc = "apply"
  /\ rlReq[s].changes < MaxRoleChanges
  /\ rlReq[s].role = RaftSpare
  /\ rlReq[s].address \notin rlUp
  /\ LET demoted == WithChange(rlRaft, rlReq[s].address, RaftSpare)
         next == Rebalance(demoted, rlUp)
     IN  rlRaft' = IF next.address = 0 THEN demoted
                   ELSE WithChange(demoted, next.address, next.role)
  /\ rlReq' = Again(s)
  /\ UNCHANGED <<rlMembers, rlUp, rlLeader, clusterMembershipMutex>>
  /\ UNCHANGED rolesOthers

\* rebalanceMemberRoles: a member that is to become spare and does not answer
\* is demoted by the leader itself (DemoteOfflineNode), then goto again; an
\* error ends the loop.
RebalanceDemoteOffline(s) ==
  /\ rlReq[s].pc = "apply"
  /\ rlReq[s].changes < MaxRoleChanges
  /\ rlReq[s].role = RaftSpare
  /\ rlReq[s].address \notin rlUp
  /\ \E ok \in BOOLEAN :
       IF ok
       THEN /\ rlRaft' = WithChange(rlRaft, rlReq[s].address, RaftSpare)
            /\ rlReq' = Again(s)
            /\ UNCHANGED clusterMembershipMutex
       ELSE /\ rlReq' = AfterRebalance(s, TRUE)
            /\ clusterMembershipMutex' =
                 IF rlReq[s].kind = "delete" THEN clusterMembershipMutex ELSE Unlocked(s)
            /\ UNCHANGED rlRaft
  /\ UNCHANGED <<rlMembers, rlUp, rlLeader>>
  /\ UNCHANGED rolesOthers

\* rebalanceMemberRoles: changeMemberRole posts /internal/cluster/assign to
\* the member, then goto again; an error ends the loop.
RebalanceAssign(s) ==
  /\ rlReq[s].pc = "apply"
  /\ rlReq[s].changes < MaxRoleChanges
  /\ ~(rlReq[s].role = RaftSpare /\ rlReq[s].address \notin rlUp)
  /\ \E ok \in BOOLEAN :
       IF ok /\ rlReq[s].address \in rlUp /\ rlRaft[rlReq[s].address] # ""
       THEN /\ rlRaft' = WithChange(rlRaft, rlReq[s].address, rlReq[s].role)
            /\ rlReq' = Again(s)
            /\ UNCHANGED clusterMembershipMutex
       ELSE /\ rlReq' = AfterRebalance(s, TRUE)
            /\ clusterMembershipMutex' =
                 IF rlReq[s].kind = "delete" THEN clusterMembershipMutex ELSE Unlocked(s)
            /\ UNCHANGED rlRaft
  /\ UNCHANGED <<rlMembers, rlUp, rlLeader>>
  /\ UNCHANGED rolesOthers

\* internalClusterPostHandover: cluster.Handover; without a target the
\* handler returns.
HandoverCompute(s) ==
  /\ rlReq[s].pc = "handover"
  /\ LET change == Handover(rlRaft, rlUp, rlReq[s].arg) IN
       IF change.address = 0
       THEN /\ rlReq' = Returned(s, "ok")
            /\ clusterMembershipMutex' = Unlocked(s)
       ELSE /\ rlReq' = [rlReq EXCEPT ![s].pc = "promote", ![s].address = change.address,
                                      ![s].role = change.role]
            /\ UNCHANGED clusterMembershipMutex
  /\ UNCHANGED <<rlMembers, rlRaft, rlUp, rlLeader>>
  /\ UNCHANGED rolesOthers

PromotionUnchecked(s) ==
  /\ rlReq[s].pc = "promote"
  /\ \E ok \in BOOLEAN :
       /\ rlRaft' = IF ok /\ rlRaft[rlReq[s].address] # ""
                     THEN [rlRaft EXCEPT ![rlReq[s].address] = rlReq[s].role]
                     ELSE rlRaft
       /\ rlReq' = [rlReq EXCEPT ![s].pc = "demote"]
  /\ UNCHANGED <<rlMembers, rlUp, rlLeader, clusterMembershipMutex>>
  /\ UNCHANGED rolesOthers

\* internalClusterPostHandover: changeMemberRole of the target.
HandoverPromote(s) ==
  /\ rlReq[s].pc = "promote"
  /\ \E ok \in BOOLEAN :
       IF ok /\ rlRaft[rlReq[s].address] # ""
       THEN /\ rlRaft' = [rlRaft EXCEPT ![rlReq[s].address] = rlReq[s].role]
            /\ rlReq' = [rlReq EXCEPT ![s].pc = "demote"]
            /\ UNCHANGED clusterMembershipMutex
       ELSE /\ rlReq' = Returned(s, "error")
            /\ clusterMembershipMutex' = Unlocked(s)
            /\ UNCHANGED rlRaft
  /\ UNCHANGED <<rlMembers, rlUp, rlLeader>>
  /\ UNCHANGED rolesOthers

\* internalClusterPostHandover: the member that hands over becomes spare.
HandoverDemote(s) ==
  /\ rlReq[s].pc = "demote"
  /\ \E ok \in BOOLEAN :
       IF ok /\ rlRaft[rlReq[s].arg] # ""
       THEN /\ rlRaft' = [rlRaft EXCEPT ![rlReq[s].arg] = RaftSpare]
            /\ rlReq' = Returned(s, "ok")
       ELSE /\ rlReq' = Returned(s, "error")
            /\ UNCHANGED rlRaft
  /\ clusterMembershipMutex' = Unlocked(s)
  /\ UNCHANGED <<rlMembers, rlUp, rlLeader>>
  /\ UNCHANGED rolesOthers

\* clusterNodeDelete: when the leader of a two node cluster is removed, the
\* other node, if it is a stand-by, is promoted with changeMemberRole.
DeletePromoteOther(s) ==
  /\ rlReq[s].pc = "promote-other"
  /\ IF rlReq[s].address # 0
     THEN \E ok \in BOOLEAN :
            IF ok /\ rlRaft[rlReq[s].address] # ""
            THEN /\ rlRaft' = [rlRaft EXCEPT ![rlReq[s].address] = RaftVoter]
                 /\ rlReq' = [Did(s, "promote") EXCEPT ![s].pc = "leave"]
                 /\ UNCHANGED clusterMembershipMutex
            ELSE /\ rlReq' = Returned(s, "error")
                 /\ clusterMembershipMutex' = Unlocked(s)
                 /\ UNCHANGED rlRaft
     ELSE /\ rlReq' = [rlReq EXCEPT ![s].pc = "leave"]
          /\ UNCHANGED <<rlRaft, clusterMembershipMutex>>
  /\ UNCHANGED <<rlMembers, rlUp, rlLeader>>
  /\ UNCHANGED rolesOthers

\* clusterNodeDelete: autoSyncImages, whose failure ends a removal without
\* force, then cluster.Leave, which removes the raft node of the member.
DeleteLeave(s) ==
  /\ rlReq[s].pc = "leave"
  /\ \E syncOk \in BOOLEAN, leaveOk \in BOOLEAN :
       IF (syncOk \/ rlReq[s].force) /\ leaveOk /\ rlReq[s].arg \in rlMembers
       THEN /\ rlRaft' = [rlRaft EXCEPT ![rlReq[s].arg] = ""]
            /\ rlReq' = [Did(s, "leave") EXCEPT ![s].pc = "cleanup", ![s].address = 0]
            /\ UNCHANGED clusterMembershipMutex
       ELSE /\ rlReq' = Returned(s, IF syncOk \/ rlReq[s].force THEN "error"
                                    ELSE "Failed to sync images")
            /\ clusterMembershipMutex' = Unlocked(s)
            /\ UNCHANGED rlRaft
  /\ UNCHANGED <<rlMembers, rlUp, rlLeader>>
  /\ UNCHANGED rolesOthers

AlwaysContacted(force) == TRUE

\* force != 1: the member that leaves is contacted by the leader.
ContactsLeavingNode(force) == ~force

\* clusterNodeDelete without force: the networks and storage pools of the
\* leaving member are deleted on it; an error is returned.
DeleteCleanup(s) ==
  /\ rlReq[s].pc = "cleanup"
  /\ \E ok \in BOOLEAN :
       IF ~ContactsLeavingNode(rlReq[s].force)
       THEN /\ rlReq' = [rlReq EXCEPT ![s].pc = "purge"]
            /\ UNCHANGED clusterMembershipMutex
       ELSE IF ok /\ rlReq[s].arg \in rlUp
       THEN /\ rlReq' = [Did(s, "cleanup") EXCEPT ![s].pc = "purge"]
            /\ UNCHANGED clusterMembershipMutex
       ELSE /\ rlReq' = Returned(s, "error")
            /\ clusterMembershipMutex' = Unlocked(s)
  /\ UNCHANGED <<rlMembers, rlRaft, rlUp, rlLeader>>
  /\ UNCHANGED rolesOthers

\* clusterNodeDelete: cluster.Purge removes the Member row; then
\* rebalanceMemberRoles.
DeletePurge(s) ==
  /\ rlReq[s].pc = "purge"
  /\ \E ok \in BOOLEAN :
       IF ok
       THEN /\ rlMembers' = rlMembers \ {rlReq[s].arg}
            /\ rlReq' = [Did(s, "purge") EXCEPT ![s].pc = "rebalance"]
            /\ UNCHANGED clusterMembershipMutex
       ELSE /\ rlReq' = Returned(s, "error")
            /\ clusterMembershipMutex' = Unlocked(s)
            /\ UNCHANGED rlMembers
  /\ UNCHANGED <<rlRaft, rlUp, rlLeader>>
  /\ UNCHANGED rolesOthers

\* clusterNodeDelete: a leader that removed itself disables clustering
\* locally; otherwise, unless forced, the database of the removed member is
\* reset with client.UpdateCluster; then the handler returns.
DeleteDisable(s) ==
  /\ rlReq[s].pc = "disable"
  /\ \E ok \in BOOLEAN :
       rlReq' =
         IF rlReq[s].arg = rlLeader
         THEN [Returned(s, "ok") EXCEPT ![s].steps = Append(rlReq[s].steps, "disable")]
         ELSE IF ~ContactsLeavingNode(rlReq[s].force) THEN Returned(s, "ok")
         ELSE IF ok /\ rlReq[s].arg \in rlUp
         THEN [Returned(s, "ok") EXCEPT ![s].steps = Append(rlReq[s].steps, "reset")]
         ELSE Returned(s, "error")
  /\ clusterMembershipMutex' = Unlocked(s)
  /\ UNCHANGED <<rlMembers, rlRaft, rlUp, rlLeader>>
  /\ UNCHANGED rolesOthers

\* The response has been sent; the slot is free for the next request.
RoleRequestDone(s) ==
  /\ rlReq[s].pc = "done"
  /\ rlReq' = [rlReq EXCEPT ![s] = IdleRoleReq]
  /\ UNCHANGED <<rlMembers, rlRaft, rlUp, rlLeader, clusterMembershipMutex>>
  /\ UNCHANGED rolesOthers

\* The steps of the rebalance, handover, member delete and raft-node delete
\* handlers whose requests use the given slots.
RolesStep(slots) ==
  \/ \E s \in slots, node \in RaftMembers, leader \in LeaderAddresses :
       PostRebalanceBegin(s, node, leader)
  \/ \E s \in slots, node \in RaftMembers, address \in HandoverAddresses,
        leader \in LeaderAddresses :
       PostHandoverBegin(s, node, address, leader)
  \/ \E s \in slots, node \in RaftMembers, name \in RaftMembers, force \in BOOLEAN :
       NodeDeleteBegin(s, node, name, force)
  \/ \E s \in slots, node \in RaftMembers, address \in RaftMembers :
       RaftNodeDeleteBegin(s, node, address)
  \/ \E s \in slots : MembershipLock(s)
  \/ \E s \in slots : RebalanceCompute(s)
  \/ \E s \in slots : RebalanceDemoteOffline(s)
  \/ \E s \in slots : RebalanceAssign(s)
  \/ \E s \in slots : HandoverCompute(s)
  \/ \E s \in slots : HandoverPromote(s)
  \/ \E s \in slots : HandoverDemote(s)
  \/ \E s \in slots : DeletePromoteOther(s)
  \/ \E s \in slots : DeleteLeave(s)
  \/ \E s \in slots : DeleteCleanup(s)
  \/ \E s \in slots : DeletePurge(s)
  \/ \E s \in slots : DeleteDisable(s)
  \/ \E s \in slots : RoleRequestDone(s)

\* Requests handled concurrently.
RolesNext == RolesStep(RoleRequests)

\* Requests handled one after the other, those of joining members included.
RolesNextSerial ==
  \/ \E node \in RaftMembers, name \in RaftMembers \cup {0}, leader \in LeaderAddresses :
       PostAcceptBegin("p", node, name, leader)
  \/ AcceptMember("p")
  \/ RolesStep({"p"})

(***************************************************************************)
(* Bootstrap: PUT /1.0/cluster without a cluster address                   *)
(***************************************************************************)

\* The hosts of the addresses tried: IPv4 and IPv6 literals, a host name and
\* the empty host.
IPv4Hosts == {"0.0.0.0", "10.0.0.1"}
IPv6Hosts == {"::", "fd42::1"}
HostNames == {"lxd1", ""}

\* A network address is kept by its written form: the host alone ("bare"),
\* the host in square brackets ("bracketed"), host:8443 ("hostport") or
\* [host]:8443 ("bracketedport").
Address(form, host) == [form |-> form, host |-> host]

\* The values core.https_address is given.
Addresses ==
  {Address("bare", h) : h \in IPv4Hosts \cup IPv6Hosts \cup HostNames}
    \cup {Address("bracketed", h) : h \in IPv6Hosts}
    \cup {Address("hostport", h) : h \in IPv4Hosts \cup HostNames}
    \cup {Address("bracketedport", h) : h \in IPv6Hosts}

\* The empty string: the value of an address key that is not set.
NoAddress == Address("bare", "")

\* net.SplitHostPort: fails when the port is missing or when an unbracketed
\* host holds colons.
SplitHostPort(address) ==
  IF address.form = "bracketedport"
       \/ (address.form = "hostport" /\ address.host \notin IPv6Hosts)
  THEN [err |-> FALSE, host |-> address.host]
  ELSE [err |-> TRUE, host |-> ""]

\* net.ParseIP(address) # nil: the text is an IP literal.
ParseIP(address) ==
  address.form = "bare" /\ address.host \in IPv4Hosts \cup IPv6Hosts

\* net.JoinHostPort: a host with colons is wrapped in square brackets.
JoinHostPort(host) ==
  IF host \in IPv6Hosts THEN Address("bracketedport", host) ELSE Address("hostport", host)

\* fmt.Sprintf("%s:%d", address, defaultPort)
AppendPort(address) ==
  CASE address.form = "bare" -> Address("hostport", address.host)
    [] address.form = "bracketed" -> Address("bracketedport", address.host)
    [] OTHER -> address

AsWritten(address) == address

\* util.CanonicalNetworkAddress with the default port.
CanonicalNetworkAddress(address) ==
  IF ~SplitHostPort(address).err THEN address
  ELSE IF ParseIP(address) THEN JoinHostPort(address.host)
  ELSE AppendPort(address)

\* util.IsWildCardAddress
IsWildCardAddress(address) ==
  LET split == SplitHostPort(CanonicalNetworkAddress(address)) IN
    IF split.err THEN FALSE ELSE split.host \in {"0.0.0.0", "::", ""}

\* The values cluster.https_address has when it is set before the request.
ClusterAddresses == {Address("hostport", "10.0.0.1"), Address("hostport", "lxd1")}

\* The PUT request: before is the state of the member when the request came
\* in, <<cluster.https_address, tasks running, rows present>>.
IdleBootstrap == [pc |-> "idle", result |-> "", before |-> <<>>]

BootstrapInit ==
  /\ bsCore \in Addresses
  /\ bsCluster \in {NoAddress} \cup ClusterAddresses
  /\ bsTasks = FALSE
  /\ bsRows = FALSE
  /\ bsReq = IdleBootstrap

BootstrapIdle ==
  /\ bsCore = NoAddress
  /\ bsCluster = NoAddress
  /\ bsTasks = FALSE
  /\ bsRows = FALSE
  /\ bsReq = IdleBootstrap

\* clusterPutBootstrap: cluster.https_address defaults to core.https_address,
\* then the bootstrap operation is created.
ClusterPutBootstrap ==
  /\ bsReq.pc = "idle"
  /\ IF bsCluster # NoAddress
     THEN /\ bsReq' = [pc |-> "run", result |-> "",
                       before |-> <<bsCluster, bsTasks, bsRows>>]
          /\ UNCHANGED bsCluster
     ELSE IF IsWildCardAddress(bsCore)
     THEN /\ bsReq' = [pc |-> "done", result |-> "error",
                       before |-> <<bsCluster, bsTasks, bsRows>>]
          /\ UNCHANGED bsCluster
     ELSE /\ bsCluster' = bsCore
          /\ bsReq' = [pc |-> "run", result |-> "",
                       before |-> <<bsCluster, bsTasks, bsRows>>]
  /\ UNCHANGED <<bsCore, bsTasks, bsRows>>
  /\ UNCHANGED bootstrapOthers

\* The operation's run function: d.startClusterTasks(), then
\* cluster.Bootstrap, which inserts the raft node and the member row of a
\* member that is not clustered yet; on its failure d.stopClusterTasks().
BootstrapRun ==
  /\ bsReq.pc = "run"
  /\ \E ok \in BOOLEAN :
       IF ok /\ ~bsRows
       THEN /\ bsTasks' = TRUE
            /\ bsRows' = TRUE
            /\ bsReq' = [bsReq EXCEPT !.pc = "networks"]
       ELSE /\ bsTasks' = FALSE
            /\ bsReq' = [bsReq EXCEPT !.pc = "done", !.result = "error"]
            /\ UNCHANGED bsRows
  /\ UNCHANGED <<bsCore, bsCluster>>
  /\ UNCHANGED bootstrapOthers

\* The run function: networkStartup; its error is returned as it is.
BootstrapNetworkStartup ==
  /\ bsReq.pc = "networks"
  /\ \E ok \in BOOLEAN :
       bsReq' = [bsReq EXCEPT !.pc = "done", !.result = IF ok THEN "ok" ELSE "error"]
  /\ UNCHANGED <<bsCore, bsCluster, bsTasks, bsRows>>
  /\ UNCHANGED bootstrapOthers

\* The operation has ended; the next request may come.
BootstrapDone ==
  /\ bsReq.pc = "done"
  /\ bsReq' = IdleBootstrap
  /\ UNCHANGED <<bsCore, bsCluster, bsTasks, bsRows>>
  /\ UNCHANGED bootstrapOthers

BootstrapNext ==
  \/ ClusterPutBootstrap
  \/ BootstrapRun
  \/ BootstrapNetworkStartup
  \/ BootstrapDone

(***************************************************************************)
(* Join: PUT /1.0/cluster with a cluster address                           *)
(***************************************************************************)

\* What a join leaves behind: "address" the cluster.https_address of the
\* joiner, "peer-cert" the certificate of the joiner in the trust store of the
\* cluster, "resources" the storage pools and networks initialised locally,
\* "member" the Member row and raft node inserted by the leader,
\* "cluster-cert" the cluster certificate written locally, "trust" the
\* certificates of the other members in the local trust store, "raft" the
\* membership of the dqlite cluster, "tasks" the running cluster tasks.
JoinEffects ==
  {"address", "peer-cert", "resources", "member", "cluster-cert", "trust", "raft", "tasks"}

\* What a hook of the revert stack of run undoes.
Undoes(hook) ==
  CASE hook = "localRevert" -> {"resources"}
    [] hook = "stopClusterTasks" -> {"tasks"}

\* revert.Fail(): every hook that was added runs.
Reverted(stack) == UNION {Undoes(stack[i]) : i \in 1..Len(stack)}

\* The join request: steps lists the steps of run that have succeeded.
IdleJoin ==
  [pc |-> "idle", result |-> "", password |-> FALSE, stack |-> <<>>, before |-> {},
   steps |-> <<>>]

JoinInit ==
  /\ jnEffects = {}
  /\ jnReq = IdleJoin

JoinIdle == JoinInit

FailureIgnored(effects) ==
  /\ jnEffects' = jnEffects \cup effects
  /\ jnReq' = [jnReq EXCEPT !.pc = "raft"]

\* A step of run returns an error after it left the given effects: the
\* deferred revert.Fail() runs.
JoinFailed(effects) ==
  /\ jnEffects' = (jnEffects \cup effects) \ Reverted(jnReq.stack)
  /\ jnReq' = [jnReq EXCEPT !.pc = "done", !.result = "error", !.stack = <<>>]

\* A step of run went through and left the given effects; did names the
\* steps of the join it completes.
JoinGoes(pc, effects, did) ==
  /\ jnEffects' = jnEffects \cup effects
  /\ jnReq' = [jnReq EXCEPT !.pc = pc, !.steps = jnReq.steps \o did]

\* clusterPutJoin: the checks of the request, the update of the addresses
\* and the creation of the join operation.
ClusterPutJoin(certificate, serverAddress, password) ==
  /\ jnReq.pc = "idle"
  /\ IF ~certificate \/ "raft" \in jnEffects \/ ~serverAddress
     THEN /\ jnReq' = [IdleJoin EXCEPT !.pc = "done", !.result = "BadRequest",
                                       !.before = jnEffects]
          /\ UNCHANGED jnEffects
     ELSE \E ok \in BOOLEAN :
            IF ok
            THEN /\ jnEffects' = jnEffects \cup {"address"}
                 /\ jnReq' = [IdleJoin EXCEPT !.pc = "setup-trust", !.password = password,
                                              !.before = jnEffects]
            ELSE /\ jnReq' = [IdleJoin EXCEPT !.pc = "done", !.result = "error",
                                              !.before = jnEffects]
                 /\ UNCHANGED jnEffects
  /\ UNCHANGED joinOthers

\* run: cluster.SetupTrust when a cluster password is given.
JoinSetupTrust ==
  /\ jnReq.pc = "setup-trust"
  /\ \E ok \in BOOLEAN :
       IF ~jnReq.password THEN JoinGoes("update-trust", {}, <<>>)
       ELSE IF ok THEN JoinGoes("update-trust", {"peer-cert"}, <<>>)
       ELSE JoinFailed({})
  /\ UNCHANGED joinOthers

\* run: cluster.UpdateTrust, then the connections to the cluster and to the
\* local daemon.
JoinUpdateTrust ==
  /\ jnReq.pc = "update-trust"
  /\ \E ok \in BOOLEAN :
       IF ok THEN JoinGoes("init-member", {}, <<"trust">>) ELSE JoinFailed({})
  /\ UNCHANGED joinOthers

\* run: clusterInitMember; its revert function is added to the revert stack.
JoinInitMember ==
  /\ jnReq.pc = "init-member"
  /\ \E ok \in BOOLEAN :
       IF ok
       THEN /\ jnEffects' = jnEffects \cup {"resources"}
            /\ jnReq' = [jnReq EXCEPT !.pc = "accept",
                                      !.stack = Append(jnReq.stack, "localRevert"),
                                      !.steps = Append(jnReq.steps, "reconcile")]
       ELSE JoinFailed({})
  /\ UNCHANGED joinOthers

\* run: the pools and networks are read and clusterAcceptMember asks the
\* cluster to add the member.
JoinAcceptMember ==
  /\ jnReq.pc = "accept"
  /\ \E ok \in BOOLEAN :
       IF ok THEN JoinGoes("cluster-cert", {"member"}, <<"accept">>) ELSE JoinFailed({})
  /\ UNCHANGED joinOthers

\* run: util.WriteCert of the cluster certificate, util.LoadClusterCert and
\* NetworkUpdateCert; failed tells which of the calls fails.
JoinInstallCert ==
  /\ jnReq.pc = "cluster-cert"
  /\ \E failed \in {"", "WriteCert", "LoadClusterCert"} :
       IF failed = "" THEN JoinGoes("trust", {"cluster-cert"}, <<"cert">>)
       ELSE IF failed = "WriteCert" THEN JoinFailed({})
       ELSE JoinFailed({"cluster-cert"})
  /\ UNCHANGED joinOthers

\* run: client.GetCertificates, then CreateCertificate for the certificates
\* of the other members; failed tells which of the calls fails.
JoinTrustMembers ==
  /\ jnReq.pc = "trust"
  /\ \E failed \in {"", "GetCertificates", "CreateCertificate"}, stored \in BOOLEAN :
       IF failed = "" THEN JoinGoes("raft", {"trust"}, <<>>)
       ELSE IF failed = "CreateCertificate" /\ stored THEN JoinFailed({"trust"})
       ELSE JoinFailed({})
  /\ UNCHANGED joinOthers

\* run: cluster.Join, then d.startClusterTasks(), whose stop is added to the
\* revert stack.
JoinRaft ==
  /\ jnReq.pc = "raft"
  /\ \E ok \in BOOLEAN :
       IF ok
       THEN /\ jnEffects' = jnEffects \cup {"raft", "tasks"}
            /\ jnReq' = [jnReq EXCEPT !.pc = "services",
                                      !.stack = Append(jnReq.stack, "stopClusterTasks"),
                                      !.steps = Append(jnReq.steps, "raft")]
       ELSE JoinFailed({})
  /\ UNCHANGED joinOthers

\* run: the cluster and member configuration are loaded and MAAS, RBAC and
\* Candid are set up.
JoinServices ==
  /\ jnReq.pc = "services"
  /\ \E ok \in BOOLEAN :
       IF ok THEN JoinGoes("networks", {}, <<>>) ELSE JoinFailed({})
  /\ UNCHANGED joinOthers

\* run: networkStartup, whose error is only logged, cluster.Connect, the
\* rebalance request and autoSyncImages, whose errors are only logged, and
\* revert.Success().
JoinFinish ==
  /\ jnReq.pc = "networks"
  /\ \E networks \in BOOLEAN, connect \in BOOLEAN, rebalance \in BOOLEAN :
       IF connect
       THEN /\ jnReq' = [jnReq EXCEPT !.pc = "done", !.result = "ok", !.stack = <<>>,
                                      !.steps = jnReq.steps
                                                  \o (IF networks THEN <<"networks">> ELSE <<>>)
                                                  \o (IF rebalance THEN <<"rebalance">> ELSE <<>>)
                                                  \o <<"ready">>]
            /\ UNCHANGED jnEffects
       ELSE /\ jnEffects' = jnEffects \ Reverted(jnReq.stack)
            /\ jnReq' = [jnReq EXCEPT !.pc = "done", !.result = "error", !.stack = <<>>,
                                      !.steps = jnReq.steps
                                                  \o (IF networks THEN <<"networks">> ELSE <<>>)]
  /\ UNCHANGED joinOthers

\* The operation has ended; the next request may come.
JoinDone ==
  /\ jnReq.pc = "done"
  /\ jnReq' = IdleJoin
  /\ UNCHANGED jnEffects
  /\ UNCHANGED joinOthers

JoinNext ==
  \/ \E certificate \in BOOLEAN, serverAddress \in BOOLEAN, password \in BOOLEAN :
       ClusterPutJoin(certificate, serverAddress, password)
  \/ JoinSetupTrust
  \/ JoinUpdateTrust
  \/ JoinInitMember
  \/ JoinAcceptMember
  \/ JoinInstallCert
  \/ JoinTrustMembers
  \/ JoinRaft
  \/ JoinServices
  \/ JoinFinish
  \/ JoinDone

(***************************************************************************)
(* Networks: POST /1.0/networks, PUT and DELETE /1.0/networks/{name}       *)
(***************************************************************************)

\* Number of members of the cluster that creates the network; a member that
\* is alone takes the non-clustered path.
NumNetMembers == 2
NetMembers == 1..NumNetMembers

\* The global config of a request; "" is an empty config.
NetConfigs == {"", "mtu"}

\* netType.FillConfig: the defaults are added to an empty config.
FillConfig(config) == IF config = "" THEN "defaults" ELSE config

NeverErrored(state) == FALSE

\* netInfo.Status == api.NetworkStatusErrored
Errored(state) == state = "errored"

\* networkPartiallyCreated: the network is errored or has global config.
NetworkPartiallyCreated(state, config) == Errored(state) \/ config # ""

\* The notifier has returned: every peer has answered.
AllNotified(todo) == todo = {}

\* No netInfo has been read.
NoNetInfo == <<"-", "-">>

\* The create, define and update requests that can be in flight at the same
\* time.
NetRequests == {"a", "b"}

\* A request and what its handler holds: netInfo is the state and the global
\* config read by GetNetworkInAnyState, <<"none", "">> for nil, and config is
\* the config of the request, both held until the first transaction of
\* networksPostCluster; committed tells that this transaction has inserted
\* the global config.
IdleNetReq ==
  [kind |-> "", pc |-> "idle", node |-> 0, todo |-> {}, failed |-> FALSE, result |-> "",
   netInfo |-> NoNetInfo, config |-> "", committed |-> FALSE]

NetReturned(kind, result) == [IdleNetReq EXCEPT !.kind = kind, !.pc = "done", !.result = result]

\* A create request on its way to doNetworksCreate on the member that
\* handles it.
NetCreating(pc, node) == [IdleNetReq EXCEPT !.kind = "create", !.pc = pc, !.node = node]

\* A create request that has read netInfo and goes on to the transactions
\* of the cluster path.
NetPosting(pc, node, netInfo, config) ==
  [NetCreating(pc, node) EXCEPT !.netInfo = netInfo, !.config = config]

\* The request is inside networksPostCluster, or has returned from it.
InPostCluster(req, committed) == [req EXCEPT !.committed = committed]

LeftPending(state) == state

\* tx.NetworkErrored: networkState(name, networkErrored).
NetworkErrored(state) == "errored"

\* The DELETE request: the member that handles it, the status of the network
\* it read, the peers the notifier still waits for, and whether one of them
\* has failed.
IdleNetDel ==
  [pc |-> "idle", node |-> 0, status |-> "", todo |-> {}, failed |-> FALSE, result |-> ""]

DelReturned(result) == [IdleNetDel EXCEPT !.pc = "done", !.result = result]

\* A request arrives in the first slot that is free.
NetArrives(s) ==
  /\ nwReq[s].pc = "idle"
  /\ s = "b" => nwReq["a"].pc # "idle"

\* networkCreateLock.Lock() on a member returns: no networksPost is running
\* on it. networksPost holds the lock of the member that handles it from its
\* first statement until it returns.
CreateLockFree(node) ==
  \A s \in NetRequests :
    ~(nwReq[s].kind = "create" /\ nwReq[s].pc \notin {"idle", "done"}
        /\ nwReq[s].node = node)

\* cluster.NewNotifier with NotifyAll on a member: it leaves out the member
\* itself and fails when another member is offline.
NewNotifierOk(node) == (nwMembers \ {node}) \subseteq nwUp

\* The error of cluster.NewNotifier for a peer that is offline.
PeerDown == "peer node is down"

\* The results with which a create request returns an error from the cluster
\* path.
CreateErrors == {"error", PeerDown}

\* n.Delete on a member: the network no longer exists there.
DeletedLocally(member) == nwCreatedOn' = nwCreatedOn \ {member}

\* d.cluster.DeleteNetwork: the record, its config and its networks_nodes rows
\* are removed.
DeleteNetwork ==
  /\ nwState' = "none"
  /\ nwDefined' = {}
  /\ nwConfig' = ""

NetworksInit ==
  /\ nwMembers \in {{1}, NetMembers}
  /\ nwUp \in {u \in SUBSET nwMembers : u # {}}
  /\ nwState = "none"
  /\ nwDefined = {}
  /\ nwConfig = ""
  /\ nwCreatedOn = {}
  /\ nwReq = [s \in NetRequests |-> IdleNetReq]
  /\ nwDel = IdleNetDel

NetworksIdle ==
  /\ nwMembers = {1}
  /\ nwUp = {1}
  /\ nwState = "none"
  /\ nwDefined = {}
  /\ nwConfig = ""
  /\ nwCreatedOn = {}
  /\ nwReq = [s \in NetRequests |-> IdleNetReq]
  /\ nwDel = IdleNetDel

\* networksPost with a target, under the networkCreateLock of the member that
\* handles it: tx.CreatePendingNetwork defines the network on the target
\* member.
NetworksPostTarget(s, node, target) ==
  /\ NetArrives(s)
  /\ node \in nwUp
  /\ CreateLockFree(node)
  /\ target \in nwMembers
  /\ IF nwState \notin {"none", "pending"}
     THEN /\ nwReq' = [nwReq EXCEPT ![s] = NetReturned("define", "error")]
          /\ UNCHANGED <<nwState, nwDefined>>
     ELSE IF target \in nwDefined
     THEN /\ nwReq' = [nwReq EXCEPT ![s] = NetReturned("define", "BadRequest")]
          /\ UNCHANGED <<nwState, nwDefined>>
     ELSE /\ nwState' = "pending"
          /\ nwDefined' = nwDefined \cup {target}
          /\ nwReq' = [nwReq EXCEPT ![s] = NetReturned("define", "ok")]
  /\ UNCHANGED <<nwMembers, nwUp, nwConfig, nwCreatedOn, nwDel>>
  /\ UNCHANGED networksOthers

\* networksPost without target, up to the choice of the path: it takes the
\* networkCreateLock of the member, GetNetworkInAnyState reads netInfo, an
\* errored network is refused. On a cluster, or for a network that exists and
\* is not created, the request goes on to the cluster path. A member that is
\* alone inserts the network with db.CreateNetwork, in state created.
NetworksPost(s, node, config, nodeSpecific) ==
  /\ NetArrives(s)
  /\ node \in nwUp
  /\ CreateLockFree(node)
  /\ IF Errored(nwState)
     THEN /\ nwReq' = [nwReq EXCEPT ![s] = NetReturned("create", "BadRequest")]
          /\ UNCHANGED <<nwState, nwDefined, nwConfig>>
     ELSE IF Cardinality(nwMembers) > 1 \/ (nwState # "none" /\ nwState # "created")
     THEN /\ nwReq' = [nwReq EXCEPT ![s] =
                         NetPosting(IF nodeSpecific THEN "cluster" ELSE "entries", node,
                                    <<nwState, nwConfig>>, config)]
          /\ UNCHANGED <<nwState, nwDefined, nwConfig>>
     ELSE IF nwState # "none"
     THEN /\ nwReq' = [nwReq EXCEPT ![s] = NetReturned("create", "BadRequest")]
          /\ UNCHANGED <<nwState, nwDefined, nwConfig>>
     ELSE \E ok \in BOOLEAN :
            IF ok
            THEN /\ nwState' = "created"
                 /\ nwDefined' = {node}
                 /\ nwConfig' = FillConfig(config)
                 /\ nwReq' = [nwReq EXCEPT ![s] = NetCreating("single-local", node)]
            ELSE /\ nwReq' = [nwReq EXCEPT ![s] = NetReturned("create", "error")]
                 /\ UNCHANGED <<nwState, nwDefined, nwConfig>>
  /\ UNCHANGED <<nwMembers, nwUp, nwCreatedOn, nwDel>>
  /\ UNCHANGED networksOthers

\* networksPost, for a driver without node-specific config: the transaction
\* that creates a pending entry for every member with tx.CreatePendingNetwork,
\* which inserts the record when there is none and fails when it is not
\* pending; a member already defined is not an error. An error is returned
\* and nothing is committed.
NetworksPostPending(s) ==
  /\ nwReq[s].pc = "entries"
  /\ \E ok \in BOOLEAN :
       IF ok /\ nwState \in {"none", "pending"}
       THEN /\ nwState' = "pending"
            /\ nwDefined' = nwMembers
            /\ nwReq' = [nwReq EXCEPT ![s].pc = "cluster"]
       ELSE /\ nwReq' = [nwReq EXCEPT ![s] = NetReturned("create", "error")]
            /\ UNCHANGED <<nwState, nwDefined>>
  /\ UNCHANGED <<nwMembers, nwUp, nwConfig, nwCreatedOn, nwDel>>
  /\ UNCHANGED networksOthers

\* networksPostCluster up to its first transaction: the checks on the netInfo
\* it was called with, then the transaction: for a netInfo that is partially
\* created nothing is inserted, and a request with global config is refused;
\* otherwise tx.GetNetworkID and tx.NetworkNodeConfigs need the record to
\* exist, to be pending and to be defined on every member, the global config
\* is inserted with its defaults and the network is marked errored.
NetworksPostCluster(s) ==
  /\ nwReq[s].pc = "cluster"
  /\ LET req == nwReq[s]
         netInfo == req.netInfo
         failed == InPostCluster(NetReturned("create", "error"), FALSE)
         next(committed) == InPostCluster(NetCreating("notifier", req.node), committed)
     IN  IF netInfo[1] = "created"
         THEN /\ nwReq' = [nwReq EXCEPT ![s] = failed]
              /\ UNCHANGED <<nwState, nwConfig>>
         ELSE IF netInfo[1] # "none" /\ NetworkPartiallyCreated(netInfo[1], netInfo[2])
         THEN /\ nwReq' = [nwReq EXCEPT ![s] =
                             IF req.config # "" THEN failed ELSE next(FALSE)]
              /\ UNCHANGED <<nwState, nwConfig>>
         ELSE \E ok \in BOOLEAN :
                IF ok /\ nwState = "pending" /\ nwDefined = nwMembers
                THEN /\ nwConfig' = FillConfig(req.config)
                     /\ nwState' = NetworkErrored(nwState)
                     /\ nwReq' = [nwReq EXCEPT ![s] = next(TRUE)]
                ELSE /\ nwReq' = [nwReq EXCEPT ![s] = failed]
                     /\ UNCHANGED <<nwState, nwConfig>>
  /\ UNCHANGED <<nwMembers, nwUp, nwDefined, nwCreatedOn, nwDel>>
  /\ UNCHANGED networksOthers

\* networksPostCluster: cluster.NewNotifier with NotifyAll, which fails when
\* a peer of the member that handles the request is offline.
NetworksPostNotifier(s) ==
  /\ nwReq[s].pc = "notifier"
  /\ nwReq' = [nwReq EXCEPT ![s] =
                 IF NewNotifierOk(nwReq[s].node)
                 THEN [nwReq[s] EXCEPT !.pc = "local"]
                 ELSE InPostCluster(NetReturned("create", PeerDown), nwReq[s].committed)]
  /\ UNCHANGED <<nwMembers, nwUp, nwState, nwDefined, nwConfig, nwCreatedOn, nwDel>>
  /\ UNCHANGED networksOthers

\* doNetworksCreate on the member that handles the request, after
\* network.LoadByName, which fails when a delete request has removed the
\* record. On a member that is alone a failure runs the revert of
\* networksPost, which calls d.cluster.DeleteNetwork and ignores its error:
\* the record is deleted, or it stays as it is.
NetworkCreateLocal(s) ==
  /\ nwReq[s].pc \in {"local", "single-local"}
  /\ LET req == nwReq[s] IN
     \E ok \in BOOLEAN, reverted \in BOOLEAN :
       IF ok /\ nwState # "none"
       THEN /\ nwCreatedOn' = nwCreatedOn \cup {req.node}
            /\ nwReq' = [nwReq EXCEPT ![s] =
                 IF req.pc = "local"
                 THEN [req EXCEPT !.pc = "notify", !.todo = nwMembers \ {req.node}]
                 ELSE NetReturned("create", "ok")]
            /\ UNCHANGED <<nwState, nwDefined, nwConfig>>
       ELSE IF req.pc = "local"
       THEN /\ nwReq' = [nwReq EXCEPT ![s] =
                           InPostCluster(NetReturned("create", "error"), req.committed)]
            /\ UNCHANGED <<nwState, nwDefined, nwConfig, nwCreatedOn>>
       ELSE /\ IF reverted
               THEN DeleteNetwork
               ELSE UNCHANGED <<nwState, nwDefined, nwConfig>>
            /\ nwReq' = [nwReq EXCEPT ![s] = NetReturned("create", "error")]
            /\ UNCHANGED nwCreatedOn
  /\ UNCHANGED <<nwMembers, nwUp, nwDel>>
  /\ UNCHANGED networksOthers

\* networksPostCluster: the hook of the notifier on one peer, whose
\* networksPost takes the networkCreateLock of the peer, loads the network by
\* name and handles the notification with doNetworksCreate.
NetworkNotifyPeer(s, peer) ==
  /\ nwReq[s].pc = "notify"
  /\ peer \in nwReq[s].todo
  /\ CreateLockFree(peer)
  /\ \E ok \in BOOLEAN :
       LET created == ok /\ nwState # "none"
       IN  /\ nwCreatedOn' = IF created THEN nwCreatedOn \cup {peer} ELSE nwCreatedOn
           /\ nwReq' = [nwReq EXCEPT ![s].todo = nwReq[s].todo \ {peer},
                                     ![s].failed = nwReq[s].failed \/ ~created]
  /\ UNCHANGED <<nwMembers, nwUp, nwState, nwDefined, nwConfig, nwDel>>
  /\ UNCHANGED networksOthers

\* networksPostCluster: the notifier has returned; without error
\* tx.NetworkCreated marks the network of that name created, and fails when
\* the record is gone.
NetworksPostClusterEnd(s) ==
  /\ nwReq[s].pc = "notify"
  /\ AllNotified(nwReq[s].todo)
  /\ \E ok \in BOOLEAN :
       IF ~nwReq[s].failed /\ ok /\ nwState # "none"
       THEN /\ nwState' = "created"
            /\ nwReq' = [nwReq EXCEPT ![s] = NetReturned("create", "ok")]
       ELSE /\ nwReq' = [nwReq EXCEPT ![s] =
                           InPostCluster(NetReturned("create", "error"),
                                         nwReq[s].committed)]
            /\ UNCHANGED nwState
  /\ UNCHANGED <<nwMembers, nwUp, nwDefined, nwConfig, nwCreatedOn, nwDel>>
  /\ UNCHANGED networksOthers

\* networkPut without target: refused unless the network is created.
NetworkPut(s, node, config) ==
  /\ NetArrives(s)
  /\ node \in nwUp
  /\ IF nwState = "none"
     THEN /\ nwReq' = [nwReq EXCEPT ![s] = NetReturned("update", "NotFound")]
          /\ UNCHANGED nwConfig
     ELSE IF Errored(nwState) \/ nwState # "created"
     THEN /\ nwReq' = [nwReq EXCEPT ![s] = NetReturned("update", "BadRequest")]
          /\ UNCHANGED nwConfig
     ELSE \E ok \in BOOLEAN :
            /\ nwConfig' = IF ok THEN config ELSE nwConfig
            /\ nwReq' = [nwReq EXCEPT ![s] =
                            NetReturned("update", IF ok THEN "ok" ELSE "error")]
  /\ UNCHANGED <<nwMembers, nwUp, nwState, nwDefined, nwCreatedOn, nwDel>>
  /\ UNCHANGED networksOthers

\* networkDelete on the member that handles the request:
\* GetNetworkInAnyState reads the status of the network.
NetworkDelete(node) ==
  /\ nwDel.pc = "idle"
  /\ node \in nwUp
  /\ nwDel' = IF nwState = "none"
              THEN DelReturned("NotFound")
              ELSE [IdleNetDel EXCEPT !.pc = "read", !.node = node, !.status = nwState]
  /\ UNCHANGED <<nwMembers, nwUp, nwState, nwDefined, nwConfig, nwCreatedOn, nwReq>>
  /\ UNCHANGED networksOthers

\* networkDelete of a network that was read as pending: d.cluster.DeleteNetwork
\* removes the record that exists by then, whatever its state.
NetworkDeletePending ==
  /\ nwDel.pc = "read"
  /\ nwDel.status = "pending"
  /\ \E ok \in BOOLEAN :
       IF ok /\ nwState # "none"
       THEN /\ DeleteNetwork
            /\ nwDel' = DelReturned("ok")
       ELSE /\ nwDel' = DelReturned("error")
            /\ UNCHANGED <<nwState, nwDefined, nwConfig>>
  /\ UNCHANGED <<nwMembers, nwUp, nwCreatedOn, nwReq>>
  /\ UNCHANGED networksOthers

\* networkDelete of a network that was not read as pending, up to the
\* notifier: network.LoadByName, n.Delete on this member, then on a cluster
\* the notifier for all members is built, which fails when a peer of the
\* member that handles the request is offline. The record keeps its state.
NetworkDeleteLocal ==
  /\ nwDel.pc = "read"
  /\ nwDel.status # "pending"
  /\ \E ok \in BOOLEAN :
       IF ok /\ nwState # "none"
       THEN /\ DeletedLocally(nwDel.node)
            /\ nwDel' =
                 IF Cardinality(nwMembers) > 1 /\ ~NewNotifierOk(nwDel.node)
                 THEN DelReturned("error")
                 ELSE [IdleNetDel EXCEPT !.pc = "notify",
                                         !.todo = nwMembers \ {nwDel.node}]
       ELSE /\ nwDel' = DelReturned("error")
            /\ UNCHANGED nwCreatedOn
  /\ UNCHANGED <<nwMembers, nwUp, nwState, nwDefined, nwConfig, nwReq>>
  /\ UNCHANGED networksOthers

\* networkDelete: the hook of the notifier on one peer, which handles the
\* notification with networkDelete: a record that is gone is an error, a
\* pending one is deleted from the database, any other is deleted on the peer
\* with n.Delete.
NetworkDeletePeer(peer) ==
  /\ nwDel.pc = "notify"
  /\ peer \in nwDel.todo
  /\ \E ok \in BOOLEAN :
       IF ~ok \/ nwState = "none"
       THEN /\ nwDel' = [nwDel EXCEPT !.todo = nwDel.todo \ {peer}, !.failed = TRUE]
            /\ UNCHANGED <<nwState, nwDefined, nwConfig, nwCreatedOn>>
       ELSE IF nwState = "pending"
       THEN /\ DeleteNetwork
            /\ nwDel' = [nwDel EXCEPT !.todo = nwDel.todo \ {peer}]
            /\ UNCHANGED nwCreatedOn
       ELSE /\ DeletedLocally(peer)
            /\ nwDel' = [nwDel EXCEPT !.todo = nwDel.todo \ {peer}]
            /\ UNCHANGED <<nwState, nwDefined, nwConfig>>
  /\ UNCHANGED <<nwMembers, nwUp, nwReq>>
  /\ UNCHANGED networksOthers

\* networkDelete: the notifier has returned, or the member is alone; an error
\* of a peer is returned and leaves the record, otherwise the record is
\* removed from the database.
NetworkDeleteRecord ==
  /\ nwDel.pc = "notify"
  /\ AllNotified(nwDel.todo)
  /\ \E ok \in BOOLEAN :
       IF ~nwDel.failed /\ ok /\ nwState # "none"
       THEN /\ DeleteNetwork
            /\ nwDel' = DelReturned("ok")
       ELSE /\ nwDel' = DelReturned("error")
            /\ UNCHANGED <<nwState, nwDefined, nwConfig>>
  /\ UNCHANGED <<nwMembers, nwUp, nwCreatedOn, nwReq>>
  /\ UNCHANGED networksOthers

\* The response has been sent; the slot is free for the next request.
NetworkRequestDone(s) ==
  /\ nwReq[s].pc = "done"
  /\ nwReq' = [nwReq EXCEPT ![s] = IdleNetReq]
  /\ UNCHANGED <<nwMembers, nwUp, nwState, nwDefined, nwConfig, nwCreatedOn, nwDel>>
  /\ UNCHANGED networksOthers

\* The response to the DELETE has been sent; the next one may come.
NetworkDeleteDone ==
  /\ nwDel.pc = "done"
  /\ nwDel' = IdleNetDel
  /\ UNCHANGED <<nwMembers, nwUp, nwState, nwDefined, nwConfig, nwCreatedOn, nwReq>>
  /\ UNCHANGED networksOthers

\* A member of the cluster goes offline, or comes back; some member stays
\* online. The change is taken where a handler is about to read who is
\* online: before a notifier is built.
NetworkMemberOnOff(member) ==
  /\ member \in nwMembers
  /\ \/ \E s \in NetRequests : nwReq[s].pc = "notifier"
     \/ nwDel.pc = "read"
  /\ nwUp' = IF member \in nwUp THEN nwUp \ {member} ELSE nwUp \cup {member}
  /\ nwUp' # {}
  /\ UNCHANGED <<nwMembers, nwState, nwDefined, nwConfig, nwCreatedOn, nwReq, nwDel>>
  /\ UNCHANGED networksOthers

NetworksNext ==
  \/ \E s \in NetRequests, node \in NetMembers, target \in NetMembers :
       NetworksPostTarget(s, node, target)
  \/ \E s \in NetRequests, node \in NetMembers, config \in NetConfigs,
        nodeSpecific \in BOOLEAN :
       NetworksPost(s, node, config, nodeSpecific)
  \/ \E s \in NetRequests : NetworksPostPending(s)
  \/ \E s \in NetRequests : NetworksPostCluster(s)
  \/ \E s \in NetRequests : NetworksPostNotifier(s)
  \/ \E s \in NetRequests : NetworkCreateLocal(s)
  \/ \E s \in NetRequests, peer \in NetMembers : NetworkNotifyPeer(s, peer)
  \/ \E s \in NetRequests : NetworksPostClusterEnd(s)
  \/ \E s \in NetRequests, node \in NetMembers, config \in NetConfigs :
       NetworkPut(s, node, config)
  \/ \E node \in NetMembers : NetworkDelete(node)
  \/ NetworkDeletePending
  \/ NetworkDeleteLocal
  \/ \E peer \in NetMembers : NetworkDeletePeer(peer)
  \/ NetworkDeleteRecord
  \/ \E s \in NetRequests : NetworkRequestDone(s)
  \/ NetworkDeleteDone
  \/ \E member \in NetMembers : NetworkMemberOnOff(member)

(***************************************************************************)
(* Member names: PUT /1.0/cluster, /internal/cluster/accept and            *)
(* POST /1.0/cluster/members/{name}                                        *)
(***************************************************************************)

\* The largest cluster whose names are followed.
MaxNamedMembers == 3

\* Server names as sequences of characters: the empty name, a name with the
\* prefix of target groups, and names without it.
Names == {<<>>, <<"@", "g">>, <<"n", "1">>, <<"n", "@">>, <<"n", "2">>}

targetGroupPrefix == <<"@">>

\* strings.HasPrefix
HasPrefix(s, prefix) == Len(s) >= Len(prefix) /\ SubSeq(s, 1, Len(prefix)) = prefix

\* The request that was answered last.
NoNameReq == [kind |-> "", name |-> <<>>, result |-> ""]

NameAnswer(kind, name, result) == [kind |-> kind, name |-> name, result |-> result]

NamesInit ==
  /\ nmNames = {}
  /\ nmLast = NoNameReq

NamesIdle == NamesInit

\* cluster.Accept: the name of the new member must not be taken.
AcceptName(names, name) == IF name \in names THEN names ELSE names \cup {name}

\* clusterPut: the quick checks on ServerName; then clusterPutDisable,
\* clusterPutBootstrap on a server that starts a cluster, or clusterPutJoin,
\* whose clusterAcceptMember sends req.ServerName to the leader.
ClusterPut(serverName, enabled, join) ==
  /\ join => nmNames # {} /\ Cardinality(nmNames) < MaxNamedMembers
  /\ IF \/ (serverName = <<>> /\ enabled)
        \/ (serverName # <<>> /\ ~enabled)
        \/ (serverName # <<>> /\ HasPrefix(serverName, targetGroupPrefix))
     THEN /\ nmLast' = NameAnswer("put", serverName, "BadRequest")
          /\ UNCHANGED nmNames
     ELSE IF ~enabled
     THEN /\ nmLast' = NameAnswer("disable", serverName, "ok")
          /\ UNCHANGED nmNames
     ELSE IF ~join
     THEN IF nmNames = {}
          THEN /\ nmNames' = {serverName}
               /\ nmLast' = NameAnswer("bootstrap", serverName, "ok")
          ELSE /\ nmLast' = NameAnswer("bootstrap", serverName, "error")
               /\ UNCHANGED nmNames
     ELSE /\ nmNames' = AcceptName(nmNames, serverName)
          /\ nmLast' = NameAnswer("join", serverName,
                                  IF serverName \in nmNames THEN "error" ELSE "ok")
  /\ UNCHANGED namesOthers

\* internalClusterPostAccept on the leader: a name must be given; then
\* cluster.Accept.
InternalClusterPostAccept(name) ==
  /\ nmNames # {}
  /\ Cardinality(nmNames) < MaxNamedMembers
  /\ IF name = <<>>
     THEN /\ nmLast' = NameAnswer("accept", name, "BadRequest")
          /\ UNCHANGED nmNames
     ELSE /\ nmNames' = AcceptName(nmNames, name)
          /\ nmLast' = NameAnswer("accept", name,
                                  IF name \in nmNames THEN "BadRequest" ELSE "ok")
  /\ UNCHANGED namesOthers

\* clusterNodePost: tx.RenameNode(name, req.ServerName), which fails when the
\* member does not exist or the new name is taken.
ClusterNodePost(name, serverName) ==
  /\ IF name \notin nmNames
     THEN /\ nmLast' = NameAnswer("rename", serverName, "NotFound")
          /\ UNCHANGED nmNames
     ELSE IF serverName \in nmNames
     THEN /\ nmLast' = NameAnswer("rename", serverName, "Conflict")
          /\ UNCHANGED nmNames
     ELSE /\ nmNames' = (nmNames \ {name}) \cup {serverName}
          /\ nmLast' = NameAnswer("rename", serverName, "ok")
  /\ UNCHANGED namesOthers

NamesNext ==
  \/ \E serverName \in Names, enabled \in BOOLEAN, join \in BOOLEAN :
       ClusterPut(serverName, enabled, join)
  \/ \E name \in Names : InternalClusterPostAccept(name)
  \/ \E name \in Names, serverName \in Names : ClusterNodePost(name, serverName)

(***************************************************************************)
(* Role handover of a member that shuts down: handoverMemberRole           *)
(***************************************************************************)

\* The transfers of leadership of one call are counted up to this number;
\* the code does not bound them.
MaxTransfers == 2

NeverLeader(leader, address) == FALSE

\* leader == address: the member that hands over is the raft leader itself.
IsLeader(leader, address) == leader = address

\* The call: address is the cluster address of the member, leader what
\* LeaderAddress returned last, transfers the leadership transfers done,
\* posted the address the handover request was posted to, 0 for none.
IdleHandoff ==
  [pc |-> "idle", address |-> 0, leader |-> 0, wasLeader |-> FALSE, transfers |-> 0,
   posted |-> 0, result |-> ""]

HandoffInit ==
  /\ hoLeader \in MemberIds
  /\ hoReq = IdleHandoff

HandoffIdle ==
  /\ hoLeader = 1
  /\ hoReq = IdleHandoff

\* handoverMemberRole up to the label findLeader: a member that is not
\* clustered has nothing to hand over.
HandoverMemberRole(address, clustered) ==
  /\ hoReq.pc = "idle"
  /\ hoReq' = IF clustered
              THEN [IdleHandoff EXCEPT !.pc = "find", !.address = address]
              ELSE [IdleHandoff EXCEPT !.pc = "done", !.result = "ok"]
  /\ UNCHANGED hoLeader
  /\ UNCHANGED handoffOthers

\* findLeader: d.gateway.LeaderAddress(); an error or an empty address ends
\* the call, the own address leads to the transfer of leadership.
HandoverFindLeader ==
  /\ hoReq.pc = "find"
  /\ \E err \in BOOLEAN :
       hoReq' =
         IF err \/ hoLeader = 0
         THEN [hoReq EXCEPT !.pc = "done", !.leader = 0, !.result = "error"]
         ELSE IF IsLeader(hoLeader, hoReq.address)
         THEN [hoReq EXCEPT !.pc = "transfer", !.leader = hoLeader, !.wasLeader = TRUE]
         ELSE [hoReq EXCEPT !.pc = "post", !.leader = hoLeader]
  /\ UNCHANGED hoLeader
  /\ UNCHANGED handoffOthers

\* d.gateway.TransferLeadership(), then goto findLeader.
HandoverTransferLeadership ==
  /\ hoReq.pc = "transfer"
  /\ \E ok \in BOOLEAN :
       IF ok
       THEN /\ hoLeader' \in MemberIds \ {hoLeader}
            /\ hoReq' = [hoReq EXCEPT !.pc = "find",
                            !.transfers = IF hoReq.transfers < MaxTransfers
                                          THEN hoReq.transfers + 1
                                          ELSE MaxTransfers]
       ELSE /\ hoReq' = [hoReq EXCEPT !.pc = "done", !.result = "error"]
            /\ UNCHANGED hoLeader
  /\ UNCHANGED handoffOthers

\* cluster.Connect to the leader found and POST /internal/cluster/handover.
HandoverPost ==
  /\ hoReq.pc = "post"
  /\ \E connect \in BOOLEAN, ok \in BOOLEAN :
       hoReq' =
         IF ~connect THEN [hoReq EXCEPT !.pc = "done", !.result = "error"]
         ELSE [hoReq EXCEPT !.pc = "done", !.posted = hoReq.leader,
                            !.result = IF ok THEN "ok" ELSE "error"]
  /\ UNCHANGED hoLeader
  /\ UNCHANGED handoffOthers

\* The raft cluster elects another leader, or has none for a while.
LeaderElection ==
  /\ hoLeader' \in (MemberIds \cup {0}) \ {hoLeader}
  /\ UNCHANGED hoReq
  /\ UNCHANGED handoffOthers

\* handoverMemberRole has returned.
HandoverMemberRoleDone ==
  /\ hoReq.pc = "done"
  /\ hoReq' = IdleHandoff
  /\ UNCHANGED hoLeader
  /\ UNCHANGED handoffOthers

\* The steps of handoverMemberRole are taken when they can be; when a
\* member shuts down and which member raft elects is left open.
HandoffFairness ==
  /\ WF_vars(HandoverFindLeader)
  /\ WF_vars(HandoverTransferLeadership)
  /\ WF_vars(HandoverPost)

HandoffNext ==
  \/ \E address \in MemberIds, clustered \in BOOLEAN : HandoverMemberRole(address, clustered)
  \/ HandoverFindLeader
  \/ HandoverTransferLeadership
  \/ HandoverPost
  \/ LeaderElection
  \/ HandoverMemberRoleDone

(***************************************************************************)
(* Pool and network configs of a joining member: clusterInitMember on the  *)
(* joining node, clusterCheckStoragePoolsMatch and                         *)
(* clusterCheckNetworksMatch on the leader                                 *)
(***************************************************************************)

\* Longest list of pools, and of networks, in one accept request.
MaxSubmitted == 1

\* Longest list of member config keys given by the operator of a join.
MaxMemberConfig == 1

\* A config is a map of strings: a function on the keys that are set.
NoConfig == [k \in {} |-> ""]

\* config[key] of a Go map: the empty string for a key that is not set.
Lookup(config, key) == IF key \in DOMAIN config THEN config[key] ELSE ""

\* delete(config, key)
Delete(config, key) == [k \in DOMAIN config \ {key} |-> config[k]]

\* config[key] = value
Assign(config, key, value) ==
  [k \in DOMAIN config \cup {key} |-> IF k = key THEN value ELSE config[k]]

\* db.StoragePoolNodeConfigKeys, the two of them the model uses.
StoragePoolNodeConfigKeys == {"size", "zfs.pool_name"}

\* db.NodeSpecificNetworkConfig
NodeSpecificNetworkConfig == {"bridge.external_interfaces"}

\* The config keys a pool, and a network, can carry.
PoolKeys == {"size", "zfs.pool_name", "rsync.bwlimit"}
NetworkKeys == {"bridge.external_interfaces", "ipv4.address"}

\* util.CompareConfigs: "" when the two configs have the same value for
\* every key outside exclude, a key that is not set counting as "".
CompareConfigs(config1, config2, exclude) ==
  IF \A key \in (DOMAIN config1 \cup DOMAIN config2) \ exclude :
       Lookup(config1, key) = Lookup(config2, key)
  THEN "" ELSE "config"

\* The first entry of a list with the given name, 0 when there is none.
FirstNamed(list, name) ==
  IF \E i \in DOMAIN list : list[i].Name = name
  THEN Min({i \in DOMAIN list : list[i].Name = name})
  ELSE 0

\* The body of the inner loop of clusterCheckStoragePoolsMatch for the
\* entry of the request that carries the name of the pool.
PoolMatch(pool, reqPool) ==
  IF pool.Driver # reqPool.Driver THEN "driver"
  ELSE CompareConfigs(pool.Config, reqPool.Config, StoragePoolNodeConfigKeys)

\* The same of clusterCheckNetworksMatch: only the configs are compared.
NetworkMatch(network, reqNetwork) ==
  CompareConfigs(network.Config, reqNetwork.Config, NodeSpecificNetworkConfig)

\* clusterCheckStoragePoolsMatch: the error of the first created pool of
\* the cluster that is missing or differs, "" when there is none.
RECURSIVE ClusterCheckStoragePoolsMatch(_, _)
ClusterCheckStoragePoolsMatch(pools, reqPools) ==
  IF pools = <<>> THEN ""
  ELSE LET pool == Head(pools)
           i == FirstNamed(reqPools, pool.Name)
           err == IF pool.Status # "Created" THEN ""
                  ELSE IF i = 0 THEN "missing"
                  ELSE PoolMatch(pool, reqPools[i])
       IN IF err # "" THEN err
          ELSE ClusterCheckStoragePoolsMatch(Tail(pools), reqPools)

\* clusterCheckNetworksMatch, over the created networks of the database.
RECURSIVE ClusterCheckNetworksMatch(_, _)
ClusterCheckNetworksMatch(networks, reqNetworks) ==
  IF networks = <<>> THEN ""
  ELSE LET network == Head(networks)
           i == FirstNamed(reqNetworks, network.Name)
           err == IF ~network.Managed \/ network.Status # "Created" THEN ""
                  ELSE IF i = 0 THEN "missing"
                  ELSE NetworkMatch(network, reqNetworks[i])
       IN IF err # "" THEN err
          ELSE ClusterCheckNetworksMatch(Tail(networks), reqNetworks)

AnyKey(key, keys) == TRUE

\* shared.StringInSlice(config.Key, keys)
StringInSlice(key, keys) == key \in keys

\* The loop over memberConfig of clusterInitMember for one pool or network.
RECURSIVE ApplyMemberConfig(_, _, _, _, _)
ApplyMemberConfig(config, memberConfig, entity, name, keys) ==
  IF memberConfig = <<>> THEN config
  ELSE LET c == Head(memberConfig)
           next == IF c.Entity # entity \/ c.Name # name
                      \/ ~StringInSlice(c.Key, keys)
                   THEN config
                   ELSE Assign(config, c.Key, c.Value)
       IN ApplyMemberConfig(next, Tail(memberConfig), entity, name, keys)

\* The api.StoragePoolsPost clusterInitMember builds for a pool.
InitStoragePoolPost(pool, memberConfig) ==
  [Name |-> pool.Name, Driver |-> pool.Driver,
   Config |-> ApplyMemberConfig(
                Delete(Delete(pool.Config, "volatile.initial_source"), "zfs.pool_name"),
                memberConfig, "storage-pool", pool.Name, StoragePoolNodeConfigKeys)]

\* The api.NetworksPost clusterInitMember builds for a network.
InitNetworkPost(network, memberConfig) ==
  [Name |-> network.Name, Type |-> network.Type,
   Config |-> ApplyMemberConfig(network.Config, memberConfig, "network",
                                network.Name, NodeSpecificNetworkConfig)]

\* data.StoragePools of clusterInitMember
RECURSIVE InitDataStoragePools(_, _)
InitDataStoragePools(pools, memberConfig) ==
  IF pools = <<>> THEN <<>>
  ELSE IF Head(pools).Status = "Pending"
  THEN InitDataStoragePools(Tail(pools), memberConfig)
  ELSE <<InitStoragePoolPost(Head(pools), memberConfig)>>
         \o InitDataStoragePools(Tail(pools), memberConfig)

\* data.Networks of clusterInitMember
RECURSIVE InitDataNetworks(_, _)
InitDataNetworks(networks, memberConfig) ==
  IF networks = <<>> THEN <<>>
  ELSE IF ~Head(networks).Managed \/ Head(networks).Status # "Created"
  THEN InitDataNetworks(Tail(networks), memberConfig)
  ELSE <<InitNetworkPost(Head(networks), memberConfig)>>
         \o InitDataNetworks(Tail(networks), memberConfig)

\* The pool and the network of the cluster, as the leader answers
\* GetStoragePools and GetNetworks.
ClusterPool(status) ==
  [Name |-> "p1", Driver |-> "zfs", Status |-> status,
   Config |-> [k \in PoolKeys |-> "1"]]

ClusterNetwork(status, managed) ==
  [Name |-> "n1", Type |-> "bridge", Status |-> status, Managed |-> managed,
   Config |-> [k \in NetworkKeys |-> "1"]]

Statuses == {"Created", "Pending", "Errored"}

\* What a joining member can submit for the pool: the pool as the cluster
\* has it, with another driver, with another value of a node-specific key,
\* without a key that is not node-specific, and under another name.
SubmittedPools ==
  LET same == [k \in PoolKeys |-> "1"]
  IN {[Name |-> "p1", Driver |-> "zfs", Config |-> same],
      [Name |-> "p1", Driver |-> "dir", Config |-> same],
      [Name |-> "p1", Driver |-> "zfs",
       Config |-> [k \in PoolKeys |-> IF k = "size" THEN "2" ELSE "1"]],
      [Name |-> "p1", Driver |-> "zfs",
       Config |-> [k \in {"size", "zfs.pool_name"} |-> "1"]],
      [Name |-> "p2", Driver |-> "zfs", Config |-> same]}

\* The same for the network.
SubmittedNetworks ==
  LET same == [k \in NetworkKeys |-> "1"]
  IN {[Name |-> "n1", Type |-> "bridge", Config |-> same],
      [Name |-> "n1", Type |-> "macvlan", Config |-> same],
      [Name |-> "n1", Type |-> "bridge",
       Config |-> [k \in NetworkKeys |-> IF k = "ipv4.address" THEN "1" ELSE "2"]],
      [Name |-> "n1", Type |-> "bridge",
       Config |-> [k \in NetworkKeys |-> IF k = "ipv4.address" THEN "2" ELSE "1"]],
      [Name |-> "n2", Type |-> "bridge", Config |-> same]}

\* The config keys an operator can give with a join request.
MemberConfigKeys ==
  {[Entity |-> entity, Name |-> name, Key |-> key, Value |-> "9"] :
     entity \in {"storage-pool", "network"}, name \in {"p1", "n1"},
     key \in {"size", "rsync.bwlimit", "bridge.external_interfaces", "ipv4.address"}}

ListsOf(S, n) == UNION {[1..k -> S] : k \in 0..n}

NoConfigReq ==
  [kind |-> "", name |-> "", pools |-> <<>>, networks |-> <<>>,
   memberConfig |-> <<>>, result |-> "", sent |-> <<>>]

ConfigInit ==
  /\ cfPools \in {<<ClusterPool(status)>> : status \in Statuses}
  /\ cfNetworks \in {<<ClusterNetwork(status, managed)>> :
                       status \in Statuses, managed \in BOOLEAN}
  /\ cfRows = {}
  /\ cfReq = NoConfigReq

ConfigIdle ==
  /\ cfPools = <<ClusterPool("Created")>>
  /\ cfNetworks = <<ClusterNetwork("Created", TRUE)>>
  /\ cfRows = {}
  /\ cfReq = NoConfigReq

\* internalClusterPostAccept on the leader, from the membership mutex on:
\* the two checks, then cluster.Accept, which inserts the rows of the
\* joiner unless the name is taken.
AcceptJoiner(name, pools, networks) ==
  /\ cfReq.kind = ""
  /\ LET poolErr == ClusterCheckStoragePoolsMatch(cfPools, pools)
         netErr == ClusterCheckNetworksMatch(cfNetworks, networks)
         err == IF poolErr # "" THEN poolErr
                ELSE IF netErr # "" THEN netErr
                ELSE IF name \in cfRows THEN "exists"
                ELSE ""
     IN /\ cfRows' = IF err = "" THEN cfRows \cup {name} ELSE cfRows
        /\ cfReq' = [NoConfigReq EXCEPT !.kind = "accept", !.name = name,
                       !.pools = pools, !.networks = networks,
                       !.result = IF err = "" THEN "ok" ELSE err]
  /\ UNCHANGED <<cfPools, cfNetworks>>
  /\ UNCHANGED configOthers

\* clusterInitMember on the joining node: the data handed to
\* initDataNodeApply.
ClusterInitMember(memberConfig) ==
  /\ cfReq.kind = ""
  /\ cfReq' = [NoConfigReq EXCEPT !.kind = "init", !.memberConfig = memberConfig,
                 !.result = "ok",
                 !.sent = <<InitDataStoragePools(cfPools, memberConfig),
                            InitDataNetworks(cfNetworks, memberConfig)>>]
  /\ UNCHANGED <<cfPools, cfNetworks, cfRows>>
  /\ UNCHANGED configOthers

\* The answer has been read; the next request can come.
ConfigAnswered ==
  /\ cfReq.kind # ""
  /\ cfReq' = NoConfigReq
  /\ UNCHANGED <<cfPools, cfNetworks, cfRows>>
  /\ UNCHANGED configOthers

ConfigNext ==
  \/ \E name \in {"m2"}, pools \in ListsOf(SubmittedPools, MaxSubmitted),
        networks \in ListsOf(SubmittedNetworks, MaxSubmitted) :
       AcceptJoiner(name, pools, networks)
  \/ \E memberConfig \in ListsOf(MemberConfigKeys, MaxMemberConfig) :
       ClusterInitMember(memberConfig)
  \/ ConfigAnswered

(***************************************************************************)
(* Role assignment on the target member: POST /internal/cluster/assign and *)
(* ReplaceRaftNodes on the local raft_nodes table                          *)
(***************************************************************************)

\* Longest list of raft nodes in one assign request.
MaxAssigned == 2

\* The raft nodes a request can carry: id, address, role and name.
AssignedNodes ==
  {[ID |-> id, Address |-> address, Role |-> role, Name |-> "n"] :
     id \in 1..2, address \in {"a", "b"}, role \in {RaftVoter, RaftSpare}}

\* raft_nodes(id PRIMARY KEY, address UNIQUE, role, name): the tables that
\* satisfy the two constraints.
RaftNodeTables ==
  {t \in SUBSET AssignedNodes :
     \A r, q \in t : (r.ID = q.ID \/ r.Address = q.Address) => r = q}

\* query.UpsertObject: INSERT OR REPLACE, the rows in conflict with the new
\* one on the id or on the address are replaced by it.
UpsertObject(table, node) ==
  {r \in table : r.ID # node.ID /\ r.Address # node.Address} \cup {node}

RECURSIVE UpsertAll(_, _)
UpsertAll(table, nodes) ==
  IF nodes = <<>> THEN table
  ELSE UpsertAll(UpsertObject(table, Head(nodes)), Tail(nodes))

NothingDeleted(table, nodes) == UpsertAll(table, nodes)

\* ReplaceRaftNodes: DELETE FROM raft_nodes, then one upsert per node.
ReplaceRaftNodes(table, nodes) == UpsertAll({}, nodes)

IdleAssign == [pc |-> "idle", nodes |-> <<>>, before |-> {}, replaced |-> FALSE, result |-> ""]

AssignInit ==
  /\ asTable \in RaftNodeTables
  /\ asReq = IdleAssign

AssignIdle ==
  /\ asTable = {}
  /\ asReq = IdleAssign

\* A request to /internal/cluster/assign arrives with a list of raft nodes.
AssignPosted(nodes) ==
  /\ asReq.pc = "idle"
  /\ asReq' = [IdleAssign EXCEPT !.pc = "posted", !.nodes = nodes, !.before = asTable]
  /\ UNCHANGED asTable
  /\ UNCHANGED assignOthers

\* internalClusterPostAssign: an empty list is a bad request; cluster.Assign
\* fails before it writes the list, or replaces the table and then succeeds
\* or fails while the role of the local raft node is changed.
InternalClusterPostAssign ==
  /\ asReq.pc = "posted"
  /\ IF Len(asReq.nodes) = 0
     THEN /\ asReq' = [asReq EXCEPT !.pc = "done", !.result = "BadRequest"]
          /\ UNCHANGED asTable
     ELSE \E written \in BOOLEAN, ok \in BOOLEAN :
            /\ written \/ ~ok
            /\ asTable' = IF written THEN ReplaceRaftNodes(asTable, asReq.nodes)
                          ELSE asTable
            /\ asReq' = [asReq EXCEPT !.pc = "done", !.replaced = written,
                                      !.result = IF ok THEN "ok" ELSE "error"]
  /\ UNCHANGED assignOthers

\* The response has been sent.
AssignAnswered ==
  /\ asReq.pc = "done"
  /\ asReq' = IdleAssign
  /\ UNCHANGED asTable
  /\ UNCHANGED assignOthers

AssignNext ==
  \/ \E nodes \in UNION {[1..k -> AssignedNodes] : k \in 0..MaxAssigned} :
       AssignPosted(nodes)
  \/ InternalClusterPostAssign
  \/ AssignAnswered

(***************************************************************************)
(* networkCreateLock: POST /1.0/networks served by several members at the  *)
(* same time, each request and each notification under the lock of the     *)
(* member that serves it                                                   *)
(***************************************************************************)

\* Number of members that serve create requests and notifications.
NumLockMembers == 3
LockMembers == 1..NumLockMembers

\* The request of a client on a member: "idle", "lock" (waits for
\* networkCreateLock), "create" (networksPostCluster up to the notifier),
\* "notify" (the notifier waits for the peers), "done".
IdleCreate == [pc |-> "idle", result |-> ""]

\* The notification of member o to member p: "none", "sent" (waits for the
\* networkCreateLock of p), "running" (doNetworksCreate on p), "returned".
CreatelockInit ==
  /\ ncLock = [m \in LockMembers |-> <<>>]
  /\ ncReq = [m \in LockMembers |-> IdleCreate]
  /\ ncNote = [o \in LockMembers |-> [p \in LockMembers |-> "none"]]

CreatelockIdle == CreatelockInit

\* A client posts a cluster-wide create to member m.
NetworksPostArrives(m) ==
  /\ ncReq[m].pc = "idle"
  /\ ncReq' = [ncReq EXCEPT ![m].pc = "lock"]
  /\ UNCHANGED <<ncLock, ncNote>>
  /\ UNCHANGED createlockOthers

\* networksPost: networkCreateLock.Lock()
NetworksPostLocks(m) ==
  /\ ncReq[m].pc = "lock"
  /\ ncLock[m] = <<>>
  /\ ncLock' = [ncLock EXCEPT ![m] = <<m>>]
  /\ ncReq' = [ncReq EXCEPT ![m].pc = "create"]
  /\ UNCHANGED ncNote
  /\ UNCHANGED createlockOthers

\* networksPostCluster up to the call of the notifier: the checks, the
\* first transaction, NewNotifier and doNetworksCreate; an error returns
\* and the deferred Unlock runs.
NetworksPostCreates(m) ==
  /\ ncReq[m].pc = "create"
  /\ \E ok \in BOOLEAN :
       IF ok
       THEN /\ ncReq' = [ncReq EXCEPT ![m].pc = "notify"]
            /\ ncNote' = [ncNote EXCEPT ![m] =
                            [p \in LockMembers |-> IF p = m THEN "none" ELSE "sent"]]
            /\ UNCHANGED ncLock
       ELSE /\ ncReq' = [ncReq EXCEPT ![m] = [pc |-> "done", result |-> "error"]]
            /\ ncLock' = [ncLock EXCEPT ![m] = <<>>]
            /\ UNCHANGED ncNote
  /\ UNCHANGED createlockOthers

\* networksPost on p for the notification of o: networkCreateLock.Lock()
NotificationLocks(o, p) ==
  /\ ncNote[o][p] = "sent"
  /\ ncLock[p] = <<>>
  /\ ncLock' = [ncLock EXCEPT ![p] = <<o, p>>]
  /\ ncNote' = [ncNote EXCEPT ![o][p] = "running"]
  /\ UNCHANGED ncReq
  /\ UNCHANGED createlockOthers

\* The notification is served: doNetworksCreate on p, the response, and the
\* deferred Unlock.
NotificationReturns(o, p) ==
  /\ ncNote[o][p] = "running"
  /\ ncLock' = [ncLock EXCEPT ![p] = <<>>]
  /\ ncNote' = [ncNote EXCEPT ![o][p] = "returned"]
  /\ UNCHANGED ncReq
  /\ UNCHANGED createlockOthers

\* The notifier returns when every peer has answered: with the error of a
\* peer, which networksPostCluster returns, or without one, and then the
\* transaction that marks the network created runs and its error is returned
\* as well; the response is sent and the deferred Unlock runs.
NetworksPostReturns(m) ==
  /\ ncReq[m].pc = "notify"
  /\ \A p \in LockMembers \ {m} : ncNote[m][p] = "returned"
  /\ \E notified \in BOOLEAN, marked \in BOOLEAN :
       ncReq' = [ncReq EXCEPT ![m] =
                   [pc |-> "done",
                    result |-> IF notified /\ marked THEN "ok" ELSE "error"]]
  /\ ncNote' = [ncNote EXCEPT ![m] = [p \in LockMembers |-> "none"]]
  /\ ncLock' = [ncLock EXCEPT ![m] = <<>>]
  /\ UNCHANGED createlockOthers

\* The client has its answer.
NetworksPostAnswered(m) ==
  /\ ncReq[m].pc = "done"
  /\ ncReq' = [ncReq EXCEPT ![m] = IdleCreate]
  /\ UNCHANGED <<ncLock, ncNote>>
  /\ UNCHANGED createlockOthers

CreatelockNext ==
  \/ \E m \in LockMembers : NetworksPostArrives(m)
  \/ \E m \in LockMembers : NetworksPostLocks(m)
  \/ \E m \in LockMembers : NetworksPostCreates(m)
  \/ \E o, p \in LockMembers : NotificationLocks(o, p)
  \/ \E o, p \in LockMembers : NotificationReturns(o, p)
  \/ \E m \in LockMembers : NetworksPostReturns(m)
  \/ \E m \in LockMembers : NetworksPostAnswered(m)

(***************************************************************************)
(* Properties                                                              *)
(***************************************************************************)

\* The addresses of the members other than the invoking one.
OtherAddresses ==
  {nfNodes[i].Address : i \in DOMAIN nfNodes} \ {nfAddress, "0.0.0.0"}

\* The other members whose heartbeat is older than the threshold.
OfflineByHeartbeat ==
  {a \in OtherAddresses :
     \E i \in DOMAIN nfNodes :
       nfNodes[i].Address = a /\ nfNodes[i].HeartbeatAge > offlineThreshold}

\* The other members that are offline by heartbeat and do not answer a probe.
Unreachable == {a \in OfflineByHeartbeat : a \notin nfUp}

PeerSet == {peers[i] : i \in DOMAIN peers}

\* The peers whose error the notify call does not ignore, given which errors
\* are ignorable.
FailedPeers(ignored) == {i \in DOMAIN errs : errs[i] # "nil" /\ errs[i] \notin ignored}

\* C1: at any moment at most one join-token operation is Running for a given
\* server name, whichever members handle the requests.
C1_OneRunningTokenPerName ==
  \A name \in ServerNames : Cardinality(RunningTokens(name)) <= 1

\* C2: every request that computes or applies a raft role change on the
\* leader holds the membership mutex while it does so, and no two requests
\* are inside their role-change steps at the same time.
C2_RoleChangesSerialized ==
  /\ \A s \in RoleRequests : InRoleChange(s) => clusterMembershipMutex = s
  /\ \A s, t \in RoleRequests : InRoleChange(s) /\ InRoleChange(t) => s = t

\* C3: a certificate rotation that finds exactly one other member
\* unreachable ends with an error and every member still uses the certificate
\* it used before the request.
C3_RotationAbortKeepsOldCert ==
  (/\ crReq.pc = "done"
   /\ crReq.gen # 0
   /\ Cardinality(crReq.down) = 1)
  => /\ crReq.result = "error"
     /\ \A m \in MemberIds : crCert[m] = crReq.before[m]

\* C4: when a member removes itself, its daemon is replaced only after the
\* client's request has finished; a non-leader that removes itself holds
\* clusterPutDisableMu from before it forwards the request until the context
\* of the request is done; and the goroutine of clusterPutDisable replaces the
\* daemon only while it holds clusterPutDisableMu.
C4_SelfRemovalOrder ==
  /\ (rmDelete.origin # 0 /\ rmDelete.origin = rmDelete.name)
     => /\ rmDaemon[rmDelete.name] = "replaced" => "client" \in rmCtxDone
        /\ (/\ rmDelete.origin # rmLeader
            /\ rmReq["client"].pc \in {"forward", "waiting", "returned"}
            /\ "client" \notin rmCtxDone)
           => clusterPutDisableMu[rmDelete.origin] = "delete"
  /\ rmReplaceGo.pc \in {"locked", "done"}
     => clusterPutDisableMu[rmReplaceGo.node] = "replace"

C4_Witness ==
  /\ rmDelete.origin # 0
  /\ rmDelete.origin = rmDelete.name
  /\ rmDelete.origin # rmLeader
  /\ rmDaemon[rmDelete.name] = "replaced"
  /\ rmReq["client"].result = "ok"

\* C5: with policy NotifyAll on a clustered member, NewNotifier fails, with no
\* peers and no hook invoked, exactly when some other member is offline by
\* heartbeat and does not answer the probe; otherwise every other member,
\* those offline by heartbeat that answer the probe included, is a peer.
C5_NotifyAllFailsOnUnreachable ==
  (policy = NotifyAll /\ nfAddress # "" /\ nfState # "init")
  => /\ Unreachable # {} => (nfState = "failed" /\ peers = <<>> /\ nfHooked = {})
     /\ Unreachable = {} => (nfState # "failed" /\ PeerSet = OtherAddresses)

C5_Witness ==
  /\ policy = NotifyAll
  /\ nfState = "failed"
  /\ Unreachable # {}
  /\ OfflineByHeartbeat \ Unreachable # {}

\* C6: with policy NotifyAlive on a clustered member, NewNotifier succeeds,
\* the peers are the other members except those that are offline by heartbeat
\* and do not answer the probe, the hook is never invoked against a member
\* that was left out, and a notify call runs one goroutine for every peer.
C6_NotifyAliveSkipsUnreachable ==
  (policy = NotifyAlive /\ nfAddress # "" /\ nfState # "init")
  => /\ nfState # "failed"
     /\ PeerSet = OtherAddresses \ Unreachable
     /\ nfHooked \cap Unreachable = {}
     /\ nfHooked \subseteq PeerSet
     /\ nfState \in {"running", "returned"} => DOMAIN nfPc = DOMAIN peers
     /\ nfState = "returned" => \A i \in DOMAIN peers : nfPc[i] = "done"

C6_Witness ==
  /\ policy = NotifyAlive
  /\ nfState = "returned"
  /\ Unreachable # {}
  /\ nfHooked # {}
  /\ nfHooked = OtherAddresses \ Unreachable

\* C7: a notify call starts one goroutine per peer, returns only when all of
\* them have finished, and returns the error of the first peer, in peer
\* order, whose error is not ignored (a connection error under NotifyAlive
\* is), or nil when there is none.
C7_NotifyWaitsAndReturnsFirstError ==
  /\ nfState \in {"running", "returned"} => DOMAIN nfPc = DOMAIN peers
  /\ nfState = "running" => nfResult.err = "none"
  /\ nfState = "returned"
     => /\ \A i \in DOMAIN peers : nfPc[i] = "done"
        /\ LET bad == FailedPeers(IF policy = NotifyAlive THEN {"conn"} ELSE {}) IN
             IF bad = {} THEN nfResult = [err |-> "nil", peer |-> 0]
             ELSE nfResult = [err |-> errs[Min(bad)], peer |-> Min(bad)]

C7_Witness ==
  /\ policy = NotifyAll
  /\ nfState = "returned"
  /\ Len(errs) >= 2
  /\ errs[1] = "conn"
  /\ errs[2] = "other"
  /\ nfResult = [err |-> "conn", peer |-> 1]

\* C8 as stated: under NotifyAlive no failure of a peer during notify, of a
\* connection or of the hook, makes notify return an error.
C8_AliveNeverFails ==
  (policy = NotifyAlive /\ nfState = "returned") => nfResult.err = "nil"

\* C8: under NotifyAlive a peer that fails with a connection error is only a
\* warning, notify returns no error for it; a peer that fails with any other
\* error makes notify return that error, the first such in peer order.
C8_AliveIgnoresConnectionErrors ==
  (policy = NotifyAlive /\ nfState = "returned")
  => LET bad == {i \in DOMAIN errs : errs[i] # "nil" /\ ~IsConnectionError(errs[i])} IN
       IF bad = {} THEN nfResult.err = "nil"
       ELSE nfResult = [err |-> errs[Min(bad)], peer |-> Min(bad)]

C8_Witness ==
  /\ policy = NotifyAlive
  /\ nfState = "returned"
  /\ Len(errs) >= 2
  /\ errs[1] = "conn"
  /\ errs[2] = "other"
  /\ nfResult = [err |-> "other", peer |-> 2]

\* C9 as stated: under NotifyTryAll every other member is a peer whatever its
\* heartbeat and probe, and a failing peer never makes notify return an error.
C9_TryAllNeverFails ==
  (policy = NotifyTryAll /\ nfAddress # "" /\ nfState # "init")
  => /\ nfState # "failed"
     /\ PeerSet = OtherAddresses
     /\ nfState = "returned" => nfResult.err = "nil"

\* C9: under NotifyTryAll every other member is a peer whatever its heartbeat
\* and probe and a goroutine is run for each; notify returns the error of the
\* first failing peer in peer order, and nil only when no peer failed.
C9_TryAllAttemptsAllReturnsFirstError ==
  (policy = NotifyTryAll /\ nfAddress # "" /\ nfState # "init")
  => /\ nfState # "failed"
     /\ PeerSet = OtherAddresses
     /\ nfState = "returned"
        => /\ \A i \in DOMAIN peers : nfPc[i] = "done"
           /\ (nfResult.err = "nil") = (\A i \in DOMAIN errs : errs[i] = "nil")
           /\ nfResult.err # "nil"
              => /\ errs[nfResult.peer] = nfResult.err
                 /\ \A j \in 1..(nfResult.peer - 1) : errs[j] = "nil"

C9_Witness ==
  /\ policy = NotifyTryAll
  /\ nfState = "returned"
  /\ Unreachable # {}
  /\ PeerSet = OtherAddresses
  /\ nfResult.err = "conn"

\* C10: a PUT or PATCH of a member whose roles add or drop the database role
\* is rejected and writes neither the description nor the roles; whatever
\* requests have run, every member has the database role exactly if it had it
\* at the start.
C10_DatabaseRoleUnchanged ==
  /\ \A r \in PutRequests :
       (/\ putReq[r].pc # "idle"
        /\ putReq[r].name \in PutMembers
        /\ (ClusterRoleDatabase \in putReq[r].roles)
             # (ClusterRoleDatabase \in mbInitRoles[putReq[r].name]))
       => /\ putReq[r].pc = "done"
          /\ putReq[r].result \in {"BadRequest", "PreconditionFailed"}
          /\ ~putReq[r].wrote
  /\ \A m \in PutMembers :
       (ClusterRoleDatabase \in mbRoles[m]) = (ClusterRoleDatabase \in mbInitRoles[m])

C10_Witness ==
  \E r \in PutRequests :
    /\ putReq[r].pc = "done"
    /\ putReq[r].result = "BadRequest"
    /\ putReq[r].name \in PutMembers
    /\ ClusterRoleDatabase \in mbRoles[putReq[r].name]
    /\ ClusterRoleDatabase \notin putReq[r].roles
    /\ putReq[r].description # mbDescription[putReq[r].name]
    /\ \E m \in PutMembers : mbDescription[m] = "edge"

\* The handlers that forward to the leader.
ForwardingKinds == {"accept", "rebalance", "handover"}

\* C11: an accept, rebalance or handover handler that finds the local cluster
\* address different from the leader address returns, in that very step, a
\* redirect to the leader address; it does not take the membership mutex and
\* changes no member, raft node or role.
C11_NonLeaderRedirects ==
  [][\A s \in RoleRequests :
       (/\ rlReq[s].pc = "idle"
        /\ rlReq'[s].pc # "idle"
        /\ rlReq'[s].kind \in ForwardingKinds
        /\ rlReq'[s].local = "other")
       => /\ rlReq'[s].pc = "done"
          /\ rlReq'[s].result = "redirect"
          /\ rlReq'[s].address = rlLeader
          /\ clusterMembershipMutex' = clusterMembershipMutex
          /\ rlMembers' = rlMembers
          /\ rlRaft' = rlRaft]_vars

C11_Witness ==
  \E s \in RoleRequests :
    /\ rlReq[s].kind = "accept"
    /\ rlReq[s].local = "other"
    /\ rlReq[s].pc = "done"
    /\ rlReq[s].result = "redirect"

\* C12: when clusterNodeDelete removes the leader of a cluster of two members
\* that are both raft nodes, cluster.Leave is only called once the other
\* member is a voter.
C12_RemainingMemberIsVoterAtLeave ==
  [][\A s \in RoleRequests :
       (/\ rlReq[s].kind = "delete"
        /\ rlReq[s].pc = "leave"
        /\ rlReq'[s].pc = "cleanup"
        /\ rlReq[s].arg = rlLeader
        /\ Cardinality(rlMembers) = 2
        /\ Cardinality(RaftNodesOf(rlRaft)) = 2)
       => \A m \in RaftNodesOf(rlRaft) \ {rlLeader} : rlRaft[m] = RaftVoter]_vars

IsPrefix(a, b) == Len(a) <= Len(b) /\ SubSeq(b, 1, Len(a)) = a

\* The steps of a forced removal of another member, and of one without force.
ForcedSteps == <<"leave", "purge", "rebalance">>
OrderlySteps == <<"leave", "cleanup", "purge", "rebalance", "reset">>

\* C13: a forced removal of another member never contacts it, neither to
\* delete its networks and storage pools nor to reset its database, and still
\* runs Leave, Purge and the rebalance; a removal without force runs, in this
\* order, Leave, the deletion of networks and pools on the member, Purge, the
\* rebalance and the reset of the member's database.
C13_ForceNeverContactsLeavingNode ==
  \A s \in RoleRequests :
    (rlReq[s].kind = "delete" /\ rlReq[s].arg \notin {0, rlLeader})
    => /\ IsPrefix(rlReq[s].steps, IF rlReq[s].force THEN ForcedSteps ELSE OrderlySteps)
       /\ (rlReq[s].pc = "done" /\ rlReq[s].result = "ok")
          => rlReq[s].steps = IF rlReq[s].force THEN ForcedSteps ELSE OrderlySteps

C13_Witness ==
  \E s \in RoleRequests :
    /\ rlReq[s].kind = "delete"
    /\ rlReq[s].force
    /\ rlReq[s].arg \notin {0, rlLeader}
    /\ rlReq[s].pc = "done"
    /\ rlReq[s].result = "ok"
    /\ rlReq[s].steps = ForcedSteps

\* The trust state: the certificate of the joiner in the trust store of the
\* cluster and the certificates added to the local trust store.
TrustEffects == {"peer-cert", "trust"}

\* C14: a join that fails before the member has joined the raft cluster
\* leaves the cluster and the joiner in the trust state they had before it.
C14_FailedJoinRevertsTrust ==
  (jnReq.pc = "done" /\ jnReq.result = "error" /\ "raft" \notin jnEffects)
  => jnEffects \cap TrustEffects = jnReq.before \cap TrustEffects

\* C15: a join that fails after cluster.Join has succeeded returns the error
\* and rolls nothing back: the storage pools and networks initialised locally
\* stay and the cluster tasks keep running.
C15_FailureAfterRaftJoinKeepsState ==
  (jnReq.pc = "done" /\ jnReq.result = "error" /\ "raft" \in jnEffects \ jnReq.before)
  => {"resources", "tasks"} \subseteq jnEffects

\* C16: a bootstrap that fails undoes what it did: the member is left as the
\* request found it, with the cluster tasks stopped, without raft node and
\* Member row, and without the copied cluster.https_address.
C16_FailedBootstrapLeavesNothing ==
  (bsReq.pc = "done" /\ bsReq.result = "error")
  => <<bsCluster, bsTasks, bsRows>> = bsReq.before

\* The host of the address, whatever its written form, is a wildcard.
WildcardHost(address) == address.host \in {"0.0.0.0", "::", ""}

\* C17: clusterPutBootstrap leaves a cluster.https_address that is set as it
\* is; when it is unset, a wildcard core.https_address makes the request fail
\* with the key still unset and without operation, and any other
\* core.https_address is copied to it.
C17_ClusterAddressDefaultsToCore ==
  [][(bsReq.pc = "idle" /\ bsReq'.pc # "idle")
     => /\ bsCluster # NoAddress => bsCluster' = bsCluster /\ bsReq'.pc = "run"
        /\ (bsCluster = NoAddress /\ WildcardHost(bsCore))
           => /\ bsReq'.pc = "done"
              /\ bsReq'.result = "error"
              /\ bsCluster' = NoAddress
        /\ (bsCluster = NoAddress /\ ~WildcardHost(bsCore))
           => bsCluster' = bsCore /\ bsReq'.pc = "run"]_vars

C17_Witness ==
  /\ bsCore = Address("bare", "::")
  /\ bsCluster = NoAddress
  /\ bsReq.pc = "done"
  /\ bsReq.result = "error"
  /\ bsReq.before = <<NoAddress, FALSE, FALSE>>

\* No request on the network is being handled.
NetworksAtRest ==
  /\ \A s \in NetRequests : nwReq[s].pc = "idle"
  /\ nwDel.pc = "idle"

\* C18: a network whose replicated state is created exists on every cluster
\* member, also once every request on it has been answered: the state is
\* created only after doNetworksCreate has succeeded on every member.
C18_CreatedInEveryState ==
  (nwState = "created" /\ NetworksAtRest) => nwMembers \subseteq nwCreatedOn

\* A step of the delete request has removed the record of the network.
NetworkDeleted == nwDel' # nwDel /\ nwState' = "none"

\* The step of a create request in which tx.NetworkCreated marks the network
\* created, for a request whose own first transaction had marked the network
\* of that name errored.
MarkingCreateEnds(s) ==
  /\ nwReq[s].kind = "create"
  /\ nwReq[s].pc = "notify"
  /\ nwReq[s].committed
  /\ nwReq'[s] # nwReq[s]
  /\ nwState' = "created"
  /\ nwConfig' = nwConfig

\* C19: a create, define or update request that finds the network errored
\* changes neither its state nor its config. The state and the config of an
\* errored network are changed only by a delete, which removes the record,
\* and by the last transaction of a cluster-wide create whose own first
\* transaction had marked the network of that name errored, which marks it
\* created and leaves the config.
C19_ErroredIsTerminal ==
  [][(nwState = "errored" /\ (nwState' # nwState \/ nwConfig' # nwConfig))
       => \/ NetworkDeleted
          \/ \E s \in NetRequests : MarkingCreateEnds(s)]_vars

\* C19 as stated: from the moment the replicated state is errored, only a
\* delete changes the state or the config.
C19_ErroredNeverLeft ==
  [][nwState = "errored"
       => (nwState' = "errored" /\ nwConfig' = nwConfig) \/ NetworkDeleted]_vars

\* The network is errored after a cluster-wide create has failed, and a
\* request that came while another create was still being handled has been
\* refused.
C19_Witness ==
  /\ nwState = "errored"
  /\ nwReq["a"].kind = "create"
  /\ nwReq["a"].pc \notin {"idle", "done"}
  /\ nwReq["b"].pc = "done"
  /\ nwReq["b"].kind \in {"create", "update"}
  /\ nwReq["b"].result = "BadRequest"

\* C20: the number of raft voters is between 1 and 3 in every state, the
\* states between the steps of a handover or of a member removal included.
C20_VotersBetweenOneAndThree ==
  LeaderServes
  => Cardinality({m \in RaftMembers : rlRaft[m] = RaftVoter}) \in 1..MaxVoters

\* C21: in every state, a member delete that fails part-way included, every
\* member that has a Member row also has a row in the raft node list.
C21_MemberRowHasRaftRow == \A m \in rlMembers : rlRaft[m] # ""

\* C22: the member with id 1, the founding voter, is never removed by a member
\* delete while the cluster has two or more members.
C22_FounderNeverDeleted ==
  [][(1 \in rlMembers /\ Cardinality(rlMembers) >= 2) => 1 \in rlMembers']_vars

\* The member as a GET returns it: its ClusterMemberPut and the ETag of it.
MemberPut(name) == ToAPI(mbDescription[name], mbRoles[name])

\* The second transaction of the request succeeds in this step.
PutSucceeds == putReq["a"].pc = "validated" /\ putReq'["a"].result = "OK"

\* C23: a member PUT that succeeds leaves the member with the description and
\* the roles of its body, and a PUT whose body is what the member already has,
\* as after a first call with that body, is a no-op: it changes neither the
\* description nor the roles, and the ETag of the member is the same after it.
C23_RepeatedPutIsNoOp ==
  [][PutSucceeds
     => LET q == putReq["a"] IN
          /\ mbDescription'[q.name] = q.description
          /\ mbRoles'[q.name] = q.roles
          /\ (mbDescription[q.name] = q.description /\ mbRoles[q.name] = q.roles)
               => /\ mbDescription' = mbDescription
                  /\ mbRoles' = mbRoles
                  /\ Etag(MemberPut(q.name))' = Etag(MemberPut(q.name))]_vars

\* The PUT that succeeded found the description "edge" of its body on the
\* member: no member starts with it, so an earlier PUT with this description
\* and these roles succeeded for the member.
C23_Witness ==
  /\ putReq["a"].pc = "done"
  /\ putReq["a"].result = "OK"
  /\ putReq["a"].description = "edge"
  /\ putReq["a"].snapDescription = "edge"
  /\ mbRoles[putReq["a"].name] = putReq["a"].roles

\* C24: an accept of a joining member handled while an existing member is
\* offline is refused and inserts neither a Member row nor a raft node.
C24_JoinWithOfflineMemberAborts ==
  [][\A s \in RoleRequests :
       (rlReq[s].pc = "accept" /\ rlReq'[s].pc = "done" /\ ~(rlMembers \subseteq rlUp))
       => /\ rlReq'[s].result # "ok"
          /\ rlMembers' = rlMembers
          /\ rlRaft' = rlRaft]_vars

\* A name a member may have: not empty, not starting with '@'.
ValidName(name) == name # <<>> /\ name[1] # "@"

\* C25: after any sequence of bootstrap, join, accept and rename requests
\* every member's name is non-empty and does not start with '@'.
C25_MemberNamesValid == \A name \in nmNames : ValidName(name)

\* The steps of a join in the order of run: trust, reconciliation of the local
\* pools and networks, accept by the leader with its schema check, cluster
\* certificate, raft join, networks, rebalance request, ready.
JoinOrder ==
  <<"trust", "reconcile", "accept", "cert", "raft", "networks", "rebalance", "ready">>

\* The order of the state machine of the joiner as the specification draws
\* it.
JoinOrderStated ==
  <<"trust", "accept", "reconcile", "raft", "cert", "networks", "rebalance", "ready">>

JoinPosition(step) == CHOOSE i \in DOMAIN JoinOrder : JoinOrder[i] = step

\* The steps whose failure ends the join: those up to the raft join.
JoinMustSucceed == {"trust", "reconcile", "accept", "cert", "raft"}

\* C26: the steps of a join on the joining node happen in the order trust set
\* up, config reconciliation, schema check by the leader, cluster certificate
\* installed, raft join, networks started, rebalance requested, ready; up to
\* the raft join no step starts before the previous one has succeeded, while
\* a failure to start the networks or to request the rebalance is only logged
\* and the join goes on.
C26_JoinStepsInOrder ==
  LET steps == jnReq.steps IN
    /\ \A i \in DOMAIN steps : steps[i] \in JoinMustSucceed => JoinOrder[i] = steps[i]
    /\ \A i, j \in DOMAIN steps : i < j => JoinPosition(steps[i]) < JoinPosition(steps[j])
    /\ \A i \in DOMAIN steps : steps[i] \notin JoinMustSucceed => i > Cardinality(JoinMustSucceed)

\* C26 as stated: the steps that have succeeded are an initial part of trust,
\* schema check, config reconciliation, raft join, certificate, networks,
\* rebalance, ready.
C26_JoinStepsInStatedOrder == IsPrefix(jnReq.steps, JoinOrderStated)

C26_Witness ==
  /\ jnReq.pc = "done"
  /\ jnReq.result = "ok"
  /\ jnReq.steps = JoinOrder

\* The raft nodes whose role differs between the two states of a step.
RoleChanged == {m \in RaftMembers : rlRaft'[m] # rlRaft[m]}

\* C27: each iteration of the loop of rebalanceMemberRoles applies at most one
\* role change, the one cluster.Rebalance computed, and then computes the
\* plan again from the new state; a member that is to become spare and is
\* unreachable is demoted by the leader, and no member is promoted in that
\* iteration.
C27_OneRoleChangePerIteration ==
  [][\A s \in RoleRequests :
       /\ rlReq[s].pc = "rebalance" => RoleChanged = {}
       /\ rlReq[s].pc = "apply"
            => /\ RoleChanged \subseteq {rlReq[s].address}
               /\ \A m \in RoleChanged : rlRaft'[m] = rlReq[s].role
               /\ RoleChanged # {}
                    => /\ rlReq'[s].pc = "rebalance"
                       /\ rlReq'[s].changes = rlReq[s].changes + 1
               /\ (rlReq[s].role = RaftSpare /\ rlReq[s].address \notin rlUp)
                    => \A m \in RoleChanged : rlRaft'[m] = RaftSpare]_vars

\* An iteration of a rebalance request has demoted an unreachable voter and
\* nothing else; the promotion of its replacement is left to the next
\* iteration.
C27_Witness ==
  \E s \in RoleRequests :
    /\ rlReq[s].kind = "rebalance"
    /\ rlReq[s].pc = "rebalance"
    /\ rlReq[s].changes >= 1
    /\ rlReq[s].role = RaftSpare
    /\ rlReq[s].address \notin rlUp
    /\ rlRaft[rlReq[s].address] = RaftSpare
    /\ Cardinality({m \in RaftMembers : rlRaft[m] = RaftVoter}) < MaxVoters
    /\ Rebalance(rlRaft, rlUp).role = RaftVoter

\* Nothing is left to rebalance.
SteadyState == Rebalance(rlRaft, rlUp) = NoChange

\* C28: a rebalance request applies one role change per iteration until none
\* is left: when it has returned without error the roles are in a steady
\* state, and every further rebalance request, the membership being the same,
\* applies no role change.
C28_RebalanceReachesSteadyState ==
  /\ [](\A s \in RoleRequests :
          (rlReq[s].kind = "rebalance" /\ rlReq[s].pc = "done" /\ rlReq[s].result = "ok")
          => SteadyState)
  /\ [][\A s \in RoleRequests :
          (rlReq[s].kind = "rebalance" /\ rlReq[s].pc = "rebalance" /\ SteadyState)
          => /\ rlRaft' = rlRaft
             /\ rlReq'[s].pc = "done"
             /\ rlReq'[s].result = "ok"
             /\ rlReq'[s].changes = rlReq[s].changes]_vars

\* C28 as stated: the rebalance requests apply at most one role change.
C28_AtMostOneRoleChange ==
  \A s \in RoleRequests : rlReq[s].kind = "rebalance" => rlReq[s].changes <= 1

\* A rebalance request that found the steady state and applied no change.
C28_Witness ==
  \E s \in RoleRequests :
    /\ rlReq[s].kind = "rebalance"
    /\ rlReq[s].pc = "done"
    /\ rlReq[s].result = "ok"
    /\ rlReq[s].changes = 0
    /\ \E m \in RaftMembers : rlRaft[m] = RaftStandBy

\* C29: on handover the leader first promotes the candidate cluster.Handover
\* chose and demotes the member that hands over to spare only after that
\* promotion succeeded; when the promotion fails the member is not demoted,
\* and without a candidate the handler returns success and changes no role.
C29_HandoverPromotesThenDemotes ==
  [][\A s \in RoleRequests :
       rlReq[s].kind = "handover"
       => /\ rlReq[s].pc = "handover"
               => /\ rlRaft' = rlRaft
                  /\ Handover(rlRaft, rlUp, rlReq[s].arg) = NoChange
                       => rlReq'[s].pc = "done" /\ rlReq'[s].result = "ok"
          /\ rlReq[s].pc = "promote"
               => /\ rlRaft'[rlReq[s].arg] = rlRaft[rlReq[s].arg]
                  /\ rlReq'[s].pc = "demote" => rlRaft'[rlReq[s].address] = RaftVoter
                  /\ rlReq'[s].pc # "demote"
                       => rlRaft' = rlRaft /\ rlReq'[s].result = "error"
          /\ rlReq[s].pc = "demote"
               => /\ rlRaft[rlReq[s].address] = RaftVoter
                  /\ \A m \in RaftMembers \ {rlReq[s].arg} : rlRaft'[m] = rlRaft[m]
                  /\ rlRaft'[rlReq[s].arg] \in {rlRaft[rlReq[s].arg], RaftSpare}]_vars

\* The candidate has been promoted and the member that hands over is still a
\* voter: its demotion comes next.
C29_Witness ==
  \E s \in RoleRequests :
    /\ rlReq[s].kind = "handover"
    /\ rlReq[s].pc = "demote"
    /\ rlRaft[rlReq[s].address] = RaftVoter
    /\ rlRaft[rlReq[s].arg] = RaftVoter

\* C30: the handover request is only ever posted to a leader address that
\* differs from the address of the member that hands over; a member that
\* found itself to be the leader has transferred leadership before the
\* request is sent.
C30_HandoverNeverPostedToSelf ==
  /\ hoReq.pc = "post" => hoReq.leader # 0 /\ hoReq.leader # hoReq.address
  /\ hoReq.posted # 0
       => /\ hoReq.posted # hoReq.address
          /\ hoReq.wasLeader => hoReq.transfers >= 1

\* The member was the leader, transferred leadership and then posted the
\* handover request to the new leader.
C30_Witness ==
  /\ hoReq.pc = "done"
  /\ hoReq.result = "ok"
  /\ hoReq.wasLeader
  /\ hoReq.transfers >= 1
  /\ hoReq.posted # 0

\* The pool or network of the request that matches a pool or network of the
\* cluster in name, in driver or type, and in every key outside the
\* node-specific ones.
Matched(resource, submitted, driver, exclude) ==
  \E i \in DOMAIN submitted :
    /\ submitted[i].Name = resource.Name
    /\ submitted[i][driver] = resource[driver]
    /\ \A key \in (DOMAIN resource.Config \cup DOMAIN submitted[i].Config) \ exclude :
         Lookup(resource.Config, key) = Lookup(submitted[i].Config, key)

\* C31: the accept handler admits a joiner only if every created pool and
\* every created network of the cluster is in the submitted set with the
\* same driver or type and equal values for all keys that are not
\* node-specific.
C31_AdmittedOnlyIfAllMatch ==
  (cfReq.kind = "accept" /\ cfReq.result = "ok")
    => /\ \A i \in DOMAIN cfPools :
            cfPools[i].Status = "Created"
              => Matched(cfPools[i], cfReq.pools, "Driver", StoragePoolNodeConfigKeys)
       /\ \A i \in DOMAIN cfNetworks :
            (cfNetworks[i].Managed /\ cfNetworks[i].Status = "Created")
              => Matched(cfNetworks[i], cfReq.networks, "Type", NodeSpecificNetworkConfig)

\* The value the operator gave last for a key of a pool or network, as a
\* set: empty when no member config key names that entity, name and key.
LastGiven(memberConfig, entity, name, key) ==
  LET given == {i \in DOMAIN memberConfig :
                  /\ memberConfig[i].Entity = entity
                  /\ memberConfig[i].Name = name
                  /\ memberConfig[i].Key = key}
  IN IF given = {} THEN {}
     ELSE {memberConfig[CHOOSE i \in given : \A j \in given : j <= i].Value}

\* A config with the node-specific keys the operator gave for that entity
\* and name set to the values given, and nothing else changed.
WithNodeSpecific(config, memberConfig, entity, name, keys) ==
  LET set == {key \in keys : LastGiven(memberConfig, entity, name, key) # {}}
  IN [key \in DOMAIN config \cup set |->
        IF key \in set
        THEN CHOOSE v \in LastGiven(memberConfig, entity, name, key) : TRUE
        ELSE config[key]]

\* The keys of a pool that the daemon fills in by itself.
Populated == {"volatile.initial_source", "zfs.pool_name"}

\* What is sent to the local store for the pools, the cluster's config of a
\* pool taken without the given keys.
PoolsSent(without) ==
  LET sent == SelectSeq(cfPools, LAMBDA pool : pool.Status # "Pending")
  IN [i \in DOMAIN sent |->
        [Name |-> sent[i].Name, Driver |-> sent[i].Driver,
         Config |-> WithNodeSpecific(
                      [k \in DOMAIN sent[i].Config \ without |-> sent[i].Config[k]],
                      cfReq.memberConfig, "storage-pool", sent[i].Name,
                      StoragePoolNodeConfigKeys)]]

NetworksSent ==
  LET sent == SelectSeq(cfNetworks,
                        LAMBDA network : network.Managed /\ network.Status = "Created")
  IN [i \in DOMAIN sent |->
        [Name |-> sent[i].Name, Type |-> sent[i].Type,
         Config |-> WithNodeSpecific(sent[i].Config, cfReq.memberConfig, "network",
                                     sent[i].Name, NodeSpecificNetworkConfig)]]

\* C32: join-time reconciliation sends, for every pool that is not pending
\* and every managed created network, the cluster's config (for a pool
\* without the keys volatile.initial_source and zfs.pool_name) with only
\* the operator's node-specific keys of that entity and name applied;
\* nothing else is sent.
C32_InitSendsClusterConfigWithNodeKeys ==
  cfReq.kind = "init" => cfReq.sent = <<PoolsSent(Populated), NetworksSent>>

\* C32 as stated: the config sent for a pool is the cluster's config with
\* the node-specific keys applied, no key taken out.
C32_InitSendsWholeClusterConfig ==
  cfReq.kind = "init" => cfReq.sent = <<PoolsSent({}), NetworksSent>>

\* A join whose operator gave the size of pool p1: the pool is sent with
\* that size and with the cluster's value for rsync.bwlimit.
C32_Witness ==
  /\ cfReq.kind = "init"
  /\ cfReq.memberConfig # <<>>
  /\ cfReq.memberConfig[1].Entity = "storage-pool"
  /\ cfReq.memberConfig[1].Key = "size"
  /\ cfReq.memberConfig[1].Name = "p1"
  /\ Len(cfReq.sent[1]) = 1
  /\ cfReq.sent[1][1].Config["size"] = "9"
  /\ cfReq.sent[1][1].Config["rsync.bwlimit"] = "1"
  /\ Len(cfReq.sent[2]) = 1

\* C33: the member that received a certificate rotation has installed the
\* new certificate before any other member has been told to install it.
C33_OriginCommitsBeforePeers ==
  crReq.gen # 0
    => \A m \in MemberIds \ {crReq.origin} :
         crCert[m] = crReq.gen => crCert[crReq.origin] = crReq.gen

\* The nodes of a list as rows, a node giving way to a later node of the
\* list with the same id or the same address.
GivenNodes(nodes) ==
  {nodes[i] : i \in {i \in DOMAIN nodes :
                       \A j \in DOMAIN nodes :
                         j > i => /\ nodes[j].ID # nodes[i].ID
                                  /\ nodes[j].Address # nodes[i].Address}}

\* C34: after ReplaceRaftNodes(nodes) the raft_nodes table holds exactly
\* the given nodes, whatever it held before; the same request applied to
\* the table it produced leaves the table as it is; a request with an
\* empty list is rejected and leaves the table unchanged.
C34_AssignIsDeclarative ==
  /\ asReq.pc = "done" /\ asReq.replaced
       => /\ asTable = GivenNodes(asReq.nodes)
          /\ asReq.before = GivenNodes(asReq.nodes) => asTable = asReq.before
  /\ asReq.pc = "done" /\ asReq.nodes = <<>>
       => asReq.result = "BadRequest" /\ asTable = asReq.before
  /\ asReq.pc = "done" /\ ~asReq.replaced => asTable = asReq.before

\* A list of two nodes has replaced a table that held other rows.
C34_Witness ==
  /\ asReq.pc = "done"
  /\ asReq.result = "ok"
  /\ Len(asReq.nodes) = 2
  /\ Cardinality(asTable) = 2
  /\ asReq.before # {}
  /\ asReq.before \cap asTable = {}

\* C35: no two members each hold their own networkCreateLock for a
\* cluster-wide create while the notification of each waits for the lock
\* of the other.
C35_NoCrossWaitOnCreateLock ==
  \A m, p \in NetMembers :
    m # p => ~(/\ ncLock[m] = <<m>> /\ ncNote[m][p] = "sent"
               /\ ncLock[p] = <<p>> /\ ncNote[p][m] = "sent")

C37_SyncFailureChangesNothing ==
  \A s \in RoleRequests :
    (/\ rlReq[s].kind = "delete"
     /\ rlReq[s].pc = "done"
     /\ rlReq[s].result = "Failed to sync images")
    => rlReq[s].steps = <<>>

\* A member that is not the leader removes itself and holds the
\* self-removal lock.
FollowerHoldsRemovalLock ==
  /\ rmDelete.origin # 0
  /\ rmDelete.origin = rmDelete.name
  /\ rmDelete.origin # rmLeader
  /\ clusterPutDisableMu[rmDelete.origin] = "delete"

\* C38: the self-removal of a member that is not the leader does not
\* deadlock: the disable request of the leader is answered by the member
\* while the member holds the self-removal lock, the delete request of the
\* member returns, the lock is then released, and the goroutine that
\* replaces the daemon gets the lock and runs.
C38_SelfRemovalCompletes ==
  /\ (FollowerHoldsRemovalLock /\ rmReq["disable"].pc = "handling")
       ~> (rmReq["disable"].pc = "returned")
  /\ FollowerHoldsRemovalLock ~> (rmReq["client"].pc = "returned")
  /\ FollowerHoldsRemovalLock ~> (rmUnlockGo = "done")
  /\ (rmReplaceGo.pc = "waitctx") ~> (rmReplaceGo.pc \in {"done", "failed"})

\* The member has removed itself through the leader: its request has
\* returned, the lock has been released and its daemon has been replaced.
C38_Witness ==
  /\ rmDelete.origin = rmDelete.name
  /\ rmDelete.origin # rmLeader
  /\ rmReq["client"] = [pc |-> "returned", result |-> "ok"]
  /\ rmUnlockGo = "done"
  /\ rmReplaceGo.node = rmDelete.origin
  /\ rmReplaceGo.pc = "done"
  /\ rmDaemon[rmDelete.origin] = "replaced"

\* C39: handoverMemberRole terminates: a call that has started to look for
\* the leader returns, with an error or with the handover request sent.
C39_HandoverTerminates ==
  (hoReq.pc = "find") ~> (hoReq.pc = "done")

\* A step of a cluster-wide create: the transaction of networksPost that
\* creates the pending entries, or a step inside networksPostCluster.
ClusterCreateStep(s) ==
  /\ nwReq[s].kind = "create"
  /\ nwReq[s].pc \in {"entries", "cluster", "notifier", "local", "notify"}
  /\ nwReq'[s] # nwReq[s]

\* The step returns an error to the create request.
ReturnsError(s) == nwReq'[s].pc = "done" /\ nwReq'[s].result \in CreateErrors

\* C40: the first transaction of networksPostCluster marks the network
\* errored when it inserts the global config, and the step in which a
\* cluster-wide create returns an error, the failure to build the notifier
\* because a peer is down included, changes neither the state nor the config:
\* a create that fails after that transaction leaves the network errored,
\* never pending or created, unless a concurrent delete has removed the
\* record meanwhile. Before that transaction commits the config is unchanged,
\* and the only change of the state is that of the transaction of networksPost
\* that creates the pending entries for a driver without node-specific
\* config, from none or pending to pending.
C40_FailedCreateLeavesErroredOrUntouched ==
  [][\A s \in NetRequests :
       ClusterCreateStep(s)
         => /\ ReturnsError(s) => (nwState' = nwState /\ nwConfig' = nwConfig)
            /\ (~nwReq[s].committed /\ nwReq'[s].committed) => Errored(nwState')
            /\ (~nwReq'[s].committed /\ nwReq'[s].result # "ok")
                  => /\ nwConfig' = nwConfig
                     /\ \/ nwState' = nwState
                        \/ /\ nwReq[s].pc = "entries"
                           /\ nwState = "none"
                           /\ nwState' = "pending"]_vars

\* C40 as stated: a cluster-wide create that returns an error after its first
\* transaction has committed leaves the network errored, and one that returns
\* an error before leaves the state and the config as it read them.
C40_UntouchedBeforeCommit ==
  [][\A s \in NetRequests :
       (ClusterCreateStep(s) /\ ReturnsError(s))
         => IF nwReq[s].committed
            THEN Errored(nwState')
            ELSE nwReq[s].pc \in {"entries", "cluster"}
                   => /\ nwState' = nwReq[s].netInfo[1]
                      /\ nwConfig' = nwReq[s].netInfo[2]]_vars

\* The first transaction has committed, a peer of the member that handles the
\* request is down so that no notifier is built, and the network has been
\* created on no member.
C40_Witness ==
  \E s \in NetRequests :
    /\ nwReq[s].pc = "done"
    /\ nwReq[s].kind = "create"
    /\ nwReq[s].result = PeerDown
    /\ nwReq[s].committed
    /\ nwCreatedOn = {}
    /\ nwState = "errored"

(***************************************************************************)
(* Specifications                                                          *)
(***************************************************************************)

TokenIdle == TokenInit

InitNotify ==
  NotifyInit /\ TokenIdle /\ CertIdle /\ PutIdle /\ RemovalIdle /\ RolesIdle
    /\ BootstrapIdle /\ JoinIdle /\ NetworksIdle /\ NamesIdle /\ HandoffIdle
    /\ ConfigIdle /\ AssignIdle /\ CreatelockIdle

SpecNotify == InitNotify /\ [][NotifyNext]_vars

InitToken ==
  TokenInit /\ NotifyIdle /\ CertIdle /\ PutIdle /\ RemovalIdle /\ RolesIdle
    /\ BootstrapIdle /\ JoinIdle /\ NetworksIdle /\ NamesIdle /\ HandoffIdle
    /\ ConfigIdle /\ AssignIdle /\ CreatelockIdle

SpecToken == InitToken /\ [][TokenNext]_vars

InitCert ==
  CertInit /\ NotifyIdle /\ TokenIdle /\ PutIdle /\ RemovalIdle /\ RolesIdle
    /\ BootstrapIdle /\ JoinIdle /\ NetworksIdle /\ NamesIdle /\ HandoffIdle
    /\ ConfigIdle /\ AssignIdle /\ CreatelockIdle

SpecCert == InitCert /\ [][CertNext]_vars

InitPut ==
  PutInit /\ NotifyIdle /\ TokenIdle /\ CertIdle /\ RemovalIdle /\ RolesIdle
    /\ BootstrapIdle /\ JoinIdle /\ NetworksIdle /\ NamesIdle /\ HandoffIdle
    /\ ConfigIdle /\ AssignIdle /\ CreatelockIdle

SpecPut == InitPut /\ [][PutNext]_vars

SpecPutSerial == InitPut /\ [][PutNextSerial]_vars

SpecPutRoles == InitPut /\ [][PutNextRoles]_vars

InitRemoval ==
  RemovalInit /\ NotifyIdle /\ TokenIdle /\ CertIdle /\ PutIdle /\ RolesIdle
    /\ BootstrapIdle /\ JoinIdle /\ NetworksIdle /\ NamesIdle /\ HandoffIdle
    /\ ConfigIdle /\ AssignIdle /\ CreatelockIdle

SpecRemoval == InitRemoval /\ [][RemovalNext]_vars

SpecRemovalFair == InitRemoval /\ [][RemovalNext]_vars /\ RemovalFairness

InitRoles ==
  RolesInit /\ NotifyIdle /\ TokenIdle /\ CertIdle /\ PutIdle /\ RemovalIdle
    /\ BootstrapIdle /\ JoinIdle /\ NetworksIdle /\ NamesIdle /\ HandoffIdle
    /\ ConfigIdle /\ AssignIdle /\ CreatelockIdle

\* Concurrent requests start from a cluster of two voters, a stand-by and
\* spares, where the second voter is offline.
InitRolesPair ==
  /\ InitRoles
  /\ rlUp = RaftMembers \ {2}
  /\ \A m \in RaftMembers :
       rlRaft[m] = IF m <= 2 THEN RaftVoter ELSE IF m = 3 THEN RaftStandBy ELSE RaftSpare

SpecRoles == InitRolesPair /\ [][RolesNext]_vars

SpecRolesSerial == InitRoles /\ [][RolesNextSerial]_vars

InitBootstrap ==
  BootstrapInit /\ NotifyIdle /\ TokenIdle /\ CertIdle /\ PutIdle
    /\ RemovalIdle /\ RolesIdle /\ JoinIdle /\ NetworksIdle /\ NamesIdle
    /\ HandoffIdle /\ ConfigIdle /\ AssignIdle /\ CreatelockIdle

SpecBootstrap == InitBootstrap /\ [][BootstrapNext]_vars

InitJoin ==
  JoinInit /\ NotifyIdle /\ TokenIdle /\ CertIdle /\ PutIdle /\ RemovalIdle
    /\ RolesIdle /\ BootstrapIdle /\ NetworksIdle /\ NamesIdle /\ HandoffIdle
    /\ ConfigIdle /\ AssignIdle /\ CreatelockIdle

SpecJoin == InitJoin /\ [][JoinNext]_vars

InitNetworks ==
  NetworksInit /\ NotifyIdle /\ TokenIdle /\ CertIdle /\ PutIdle
    /\ RemovalIdle /\ RolesIdle /\ BootstrapIdle /\ JoinIdle /\ NamesIdle
    /\ HandoffIdle /\ ConfigIdle /\ AssignIdle /\ CreatelockIdle

SpecNetworks == InitNetworks /\ [][NetworksNext]_vars

InitNames ==
  NamesInit /\ NotifyIdle /\ TokenIdle /\ CertIdle /\ PutIdle /\ RemovalIdle
    /\ RolesIdle /\ BootstrapIdle /\ JoinIdle /\ NetworksIdle /\ HandoffIdle
    /\ ConfigIdle /\ AssignIdle /\ CreatelockIdle

SpecNames == InitNames /\ [][NamesNext]_vars

InitHandoff ==
  HandoffInit /\ NotifyIdle /\ TokenIdle /\ CertIdle /\ PutIdle
    /\ RemovalIdle /\ RolesIdle /\ BootstrapIdle /\ JoinIdle /\ NetworksIdle
    /\ NamesIdle /\ ConfigIdle /\ AssignIdle /\ CreatelockIdle

SpecHandoff == InitHandoff /\ [][HandoffNext]_vars

SpecHandoffFair == InitHandoff /\ [][HandoffNext]_vars /\ HandoffFairness

InitConfig ==
  ConfigInit /\ NotifyIdle /\ TokenIdle /\ CertIdle /\ PutIdle /\ RemovalIdle
    /\ RolesIdle /\ BootstrapIdle /\ JoinIdle /\ NetworksIdle /\ NamesIdle
    /\ HandoffIdle /\ AssignIdle /\ CreatelockIdle

SpecConfig == InitConfig /\ [][ConfigNext]_vars

InitAssign ==
  AssignInit /\ NotifyIdle /\ TokenIdle /\ CertIdle /\ PutIdle /\ RemovalIdle
    /\ RolesIdle /\ BootstrapIdle /\ JoinIdle /\ NetworksIdle /\ NamesIdle
    /\ HandoffIdle /\ ConfigIdle /\ CreatelockIdle

SpecAssign == InitAssign /\ [][AssignNext]_vars

InitCreatelock ==
  CreatelockInit /\ NotifyIdle /\ TokenIdle /\ CertIdle /\ PutIdle
    /\ RemovalIdle /\ RolesIdle /\ BootstrapIdle /\ JoinIdle /\ NetworksIdle
    /\ NamesIdle /\ HandoffIdle /\ ConfigIdle /\ AssignIdle

SpecCreatelock == InitCreatelock /\ [][CreatelockNext]_vars

====
